---------------------------- MODULE Spec2Model ----------------------------
(***************************************************************************)
(* Model of the OpenFoodFacts streaming ingest engine of foodb:            *)
(*   foodb/sources/openfoodfacts/ingest_tsv.py  (importer, Manifest Gate,  *)
(*       Row Transformer, Duplicate Resolver, Chunked Bulk Loader)         *)
(*   foodb/normalize/barcode.py, foodb/sources/openfoodfacts/nutrients.py  *)
(*                                                                         *)
(* Text is modelled as sequences of one-character strings, so that         *)
(* strip(), isdigit() and the numeric grammars are computed, not assumed.  *)
(* The database is the external collaborator "copy, commit, rollback":     *)
(* a table is the sequence of committed lines, a transaction the sequence  *)
(* of lines written and not yet committed.                                 *)
(***************************************************************************)
EXTENDS Integers, Sequences, FiniteSets, TLC

(***************************************************************************)
(* Bounds of the model.                                                    *)
(***************************************************************************)
\* data rows the reader yields at most in one run
MaxFileRows == 3
\* largest --retries value explored (the smallest is -1)
MaxRetries == 2
\* largest --chunk-rows value explored
MaxChunkRows == 2
\* largest --max-rows value explored (0 means no cap)
MaxMaxRows == 1

(***************************************************************************)
(* Characters.  "sup2" stands for U+00B2 (superscript two): str.isdigit()  *)
(* is True for it although it is no decimal digit; " " is whitespace.      *)
(***************************************************************************)
AsciiDigits == {"0", "1", "2", "3", "4", "5", "6", "7", "8", "9"}

\* the whitespace str.strip() removes, over the model's characters ("VT" is
\* the vertical tab)
IsSpace(ch) == ch \in {" ", "\t", "\n", "\r", "\f", "VT"}

\* str.isdigit() of one character
IsDigitChar(ch) == ch \in AsciiDigits \/ ch = "sup2"

DigitValue(ch) ==
  CASE ch = "0" -> 0 [] ch = "1" -> 1 [] ch = "2" -> 2 [] ch = "3" -> 3
    [] ch = "4" -> 4 [] ch = "5" -> 5 [] ch = "6" -> 6 [] ch = "7" -> 7
    [] ch = "8" -> 8 [] ch = "9" -> 9

RECURSIVE lstrip(_)
lstrip(s) == IF s # <<>> /\ IsSpace(Head(s)) THEN lstrip(Tail(s)) ELSE s

RECURSIVE rstrip(_)
rstrip(s) ==
  IF s # <<>> /\ IsSpace(s[Len(s)]) THEN rstrip(SubSeq(s, 1, Len(s) - 1)) ELSE s

\* str.strip()
strip(s) == rstrip(lstrip(s))

\* str.isdigit(): non-empty and every character a digit character
isdigit(s) == s # <<>> /\ \A i \in 1..Len(s) : IsDigitChar(s[i])

\* "".join(ch for ch in raw if ch.isdigit())
digits_only(s) == SelectSeq(s, IsDigitChar)

\* normalize_barcode(raw): NormalizedBarcode(raw, normalized, digits)
normalize_barcode(raw) ==
  LET r == strip(raw)
      d == digits_only(r)
  IN  [raw |-> r, normalized |-> d, digits |-> Len(d)]

\* _int_or_empty(value)
int_or_empty(value) ==
  LET v == strip(value)
  IN  IF v = <<>> THEN <<>>
      ELSE IF isdigit(v) \/ (Head(v) = "-" /\ isdigit(Tail(v))) THEN v
      ELSE <<>>

\* the literals float() accepts over the model's characters:
\* [-] digits [ . [digits] ]   or   [-] . digits   (decimal digits only)
IsFloatLiteral(v) ==
  LET body == IF v # <<>> /\ Head(v) = "-" THEN Tail(v) ELSE v
      dots == {i \in 1..Len(body) : body[i] = "."}
  IN  /\ body # <<>>
      /\ \A i \in 1..Len(body) : body[i] \in AsciiDigits \/ body[i] = "."
      /\ Cardinality(dots) <= 1
      /\ \E i \in 1..Len(body) : body[i] \in AsciiDigits

\* _float_or_empty(value)
float_or_empty_unchecked(value) == strip(value)

float_or_empty(value) ==
  LET v == strip(value)
  IN  IF v = <<>> THEN <<>>
      ELSE IF IsFloatLiteral(v) THEN v
      ELSE <<>>

\* int(text) for the texts _int_or_empty lets through (ASCII digits, sign)
RECURSIVE DigitsToInt(_)
DigitsToInt(s) ==
  IF s = <<>> THEN 0
  ELSE 10 * DigitsToInt(SubSeq(s, 1, Len(s) - 1)) + DigitValue(s[Len(s)])

to_int(s) == IF Head(s) = "-" THEN 0 - DigitsToInt(Tail(s)) ELSE DigitsToInt(s)


\* int(text) succeeds: optional sign, then ASCII decimal digits
int_parses(s) ==
  LET body == IF s # <<>> /\ Head(s) = "-" THEN Tail(s) ELSE s
  IN  body # <<>> /\ \A i \in 1..Len(body) : body[i] \in AsciiDigits

(***************************************************************************)
(* Row Transformer: tables of main().                                      *)
(***************************************************************************)
product_cols ==
  << "code_norm", "code_raw", "product_name", "brands", "categories",
     "quantity", "serving_size", "last_modified_t", "energy_kcal_100g",
     "energy_kj_100g", "fat_100g", "saturated_fat_100g", "carbohydrates_100g",
     "sugars_100g", "fiber_100g", "protein_100g", "sodium_100g", "salt_100g" >>

product_numeric_cols ==
  { "last_modified_t", "energy_kcal_100g", "energy_kj_100g", "fat_100g",
    "saturated_fat_100g", "carbohydrates_100g", "sugars_100g", "fiber_100g",
    "protein_100g", "sodium_100g", "salt_100g" }

product_score_fields ==
  << "product_name", "brands", "categories", "quantity", "serving_size",
     "last_modified_t" >>

\* product_nutrient_cols: source field -> product column ("" when unmapped)
product_nutrient_cols(source_field) ==
  CASE source_field = "energy-kcal_100g" -> "energy_kcal_100g"
    [] source_field = "energy-kj_100g" -> "energy_kj_100g"
    [] source_field = "energy_100g" -> "energy_kj_100g"
    [] source_field = "fat_100g" -> "fat_100g"
    [] source_field = "saturated-fat_100g" -> "saturated_fat_100g"
    [] source_field = "carbohydrates_100g" -> "carbohydrates_100g"
    [] source_field = "sugars_100g" -> "sugars_100g"
    [] source_field = "fiber_100g" -> "fiber_100g"
    [] source_field = "proteins_100g" -> "protein_100g"
    [] source_field = "sodium_100g" -> "sodium_100g"
    [] source_field = "salt_100g" -> "salt_100g"
    [] OTHER -> ""

NutrientSpec(f, k, u) == [source_field |-> f, nutrient_key |-> k, unit |-> u]

\* minimal_nutrients(include_salt=...)
minimal_nutrients(include_salt) ==
  << NutrientSpec("energy-kcal_100g", "energy_kcal", "kcal"),
     NutrientSpec("energy-kj_100g", "energy_kj", "kJ"),
     NutrientSpec("energy_100g", "energy_kj", "kJ"),
     NutrientSpec("fat_100g", "fat", "g"),
     NutrientSpec("saturated-fat_100g", "saturated_fat", "g"),
     NutrientSpec("carbohydrates_100g", "carbohydrates", "g"),
     NutrientSpec("sugars_100g", "sugars", "g"),
     NutrientSpec("fiber_100g", "fiber", "g"),
     NutrientSpec("proteins_100g", "protein", "g"),
     NutrientSpec("sodium_100g", "sodium", "g") >>
  \o (IF include_salt THEN << NutrientSpec("salt_100g", "salt", "g") >> ELSE << >>)

\* the header names of the model that end with "_100g"
Fields100g ==
  { "energy-kcal_100g", "energy-kj_100g", "energy_100g", "fat_100g",
    "saturated-fat_100g", "carbohydrates_100g", "sugars_100g", "fiber_100g",
    "proteins_100g", "sodium_100g", "salt_100g", "Fat_100g", "energy_kj_100g" }

endswith_100g(h) == h \in Fields100g

\* normalize_nutrient_key_from_field: drop "_100g", "-" -> "_", lower-case
normalize_nutrient_key_from_field(source_field) ==
  CASE source_field = "energy-kcal_100g" -> "energy_kcal"
    [] source_field = "energy-kj_100g" -> "energy_kj"
    [] source_field = "energy_kj_100g" -> "energy_kj"
    [] source_field = "energy_100g" -> "energy"
    [] source_field = "fat_100g" -> "fat"
    [] source_field = "Fat_100g" -> "fat"
    [] source_field = "saturated-fat_100g" -> "saturated_fat"
    [] source_field = "carbohydrates_100g" -> "carbohydrates"
    [] source_field = "sugars_100g" -> "sugars"
    [] source_field = "fiber_100g" -> "fiber"
    [] source_field = "proteins_100g" -> "proteins"
    [] source_field = "sodium_100g" -> "sodium"
    [] source_field = "salt_100g" -> "salt"
    [] OTHER -> source_field

\* unit_for_source_field
unit_for_source_field(source_field) ==
  IF source_field \in {"energy-kj_100g", "energy_100g"} THEN "kJ"
  ELSE IF source_field = "energy-kcal_100g" THEN "kcal"
  ELSE ""

\* header_to_index = {h: i for i, h in enumerate(headers)}: the last
\* position of a repeated name wins; 0 stands for "not in the header"
header_to_index(headers, name) ==
  LET at == {i \in 1..Len(headers) : headers[i] = name}
  IN  IF at = {} THEN 0 ELSE CHOOSE i \in at : \A j \in at : j <= i

\* get(row, name): "" for an absent column and for a short row
get(headers, row, name) ==
  LET idx == header_to_index(headers, name)
  IN  IF idx = 0 \/ idx > Len(row) THEN <<>> ELSE row[idx]

\* nutrient_fields and by_field of main(), for the two --nutrients modes
nutrient_fields(headers, mode, include_salt) ==
  IF mode = "minimal"
  THEN [i \in 1..Len(minimal_nutrients(include_salt)) |->
          minimal_nutrients(include_salt)[i].source_field]
  ELSE SelectSeq(headers, endswith_100g)

by_field(source_field, include_salt) ==
  LET specs == minimal_nutrients(include_salt)
      at == {i \in 1..Len(specs) : specs[i].source_field = source_field}
      i == CHOOSE j \in at : \A k \in at : k <= j
  IN  << specs[i].nutrient_key, specs[i].unit >>

(***************************************************************************)
(* Row Transformer: the body of the row loop of main(), lines 488-581,     *)
(* as a function of the row.                                               *)
(***************************************************************************)
\* base: dict of the 18 product columns before the nutrient loop
base_of(headers, row, raw_code, code_norm) ==
  [c \in {product_cols[i] : i \in 1..Len(product_cols)} |->
     CASE c = "code_norm" -> code_norm
       [] c = "code_raw" -> raw_code
       [] c = "product_name" -> strip(get(headers, row, "product_name"))
       [] c = "brands" -> strip(get(headers, row, "brands"))
       [] c = "categories" -> strip(get(headers, row, "categories"))
       [] c = "quantity" -> strip(get(headers, row, "quantity"))
       [] c = "serving_size" -> strip(get(headers, row, "serving_size"))
       [] c = "last_modified_t" -> int_or_empty(get(headers, row, "last_modified_t"))
       [] OTHER -> <<>>]

\* a transformer without the energy rule
suppressed_never(headers, row, mode, source_field) == FALSE

\* lines 555-560: in minimal mode energy_100g yields no observation when the
\* row has a non-empty energy-kj_100g cell
suppressed(headers, row, mode, source_field) ==
  mode = "minimal" /\ source_field = "energy_100g"
    /\ get(headers, row, "energy-kj_100g") # <<>>

\* a loop in which every valid cell overwrites its product column
keeps_existing_never(col, source_field, current) == FALSE

\* lines 539-543: the generic energy_100g leaves a product column alone that
\* already holds a value
keeps_existing(col, source_field, current) ==
  col = "energy_kj_100g" /\ source_field = "energy_100g" /\ current # <<>>

\* one pass of "for source_field in nutrient_fields" from position i on;
\* acc = [base, nutrient_lines]
RECURSIVE nutrient_loop(_, _, _, _, _, _, _)
nutrient_loop(headers, row, mode, include_salt, fields, i, acc) ==
  IF i > Len(fields) THEN acc
  ELSE
    LET source_field == fields[i]
        val == get(headers, row, source_field)
        cleaned == float_or_empty(val)
        nk == IF mode = "minimal" THEN by_field(source_field, include_salt)[1]
              ELSE normalize_nutrient_key_from_field(source_field)
        unit == IF mode = "minimal" THEN by_field(source_field, include_salt)[2]
                ELSE unit_for_source_field(source_field)
        col == product_nutrient_cols(source_field)
        base1 == IF col = "" THEN acc.base
                 ELSE IF keeps_existing(col, source_field, acc.base[col])
                      THEN acc.base
                 ELSE [acc.base EXCEPT ![col] = cleaned]
        line == [code_norm |-> acc.base["code_norm"], nutrient_key |-> nk,
                 value |-> cleaned, unit |-> unit, source_field |-> source_field]
        next == IF val = <<>> \/ cleaned = <<>> THEN acc
                ELSE IF suppressed(headers, row, mode, source_field)
                     THEN [acc EXCEPT !.base = base1]
                ELSE [base |-> base1,
                      nutrient_lines |-> Append(acc.nutrient_lines, line)]
    IN  nutrient_loop(headers, row, mode, include_salt, fields, i + 1, next)

\* raw_code, code_norm, base, nutrient_lines, nutrient_count of one row
transform(headers, row, mode, include_salt) ==
  LET raw_code == strip(get(headers, row, "code"))
      code_norm == normalize_barcode(raw_code).normalized
      acc == nutrient_loop(headers, row, mode, include_salt,
                           nutrient_fields(headers, mode, include_salt), 1,
                           [base |-> base_of(headers, row, raw_code, code_norm),
                            nutrient_lines |-> <<>>])
  IN  [code_norm |-> code_norm,
       base |-> acc.base,
       nutrient_lines |-> acc.nutrient_lines,
       nutrient_count |-> Len(acc.nutrient_lines)]

\* product_line: the 18 cells of base in product_cols order
product_line_of(base) == [i \in 1..Len(product_cols) |-> base[product_cols[i]]]

\* the key (first cell) of a product line
line_key(product_line) == product_line[1]

(***************************************************************************)
(* Duplicate Resolver: score of a row, lines 573-577, and its comparison   *)
(* (Python tuple comparison), line 579.                                    *)
(***************************************************************************)
score_of(base, nutrient_count) ==
  LET last_modified ==
        IF base["last_modified_t"] # <<>> THEN to_int(base["last_modified_t"])
        ELSE 0 - 1
      product_nonempty ==
        Cardinality({i \in 1..Len(product_score_fields) :
                       base[product_score_fields[i]] # <<>>})
  IN  << last_modified, nutrient_count, product_nonempty >>

\* a > b for 3-tuples of integers
score_greater(a, b) ==
  \/ a[1] > b[1]
  \/ a[1] = b[1] /\ a[2] > b[2]
  \/ a[1] = b[1] /\ a[2] = b[2] /\ a[3] > b[3]

(***************************************************************************)
(* Manifest Gate.  A JSON value of the manifest is a record                *)
(*   k: "absent" | "null" | "bool" | "int" | "float" | "str"               *)
(*   n: the integer (int), or the integer part (float)                     *)
(*   d: the tenths of a float (n + d/10);  s: the text;  b: the boolean    *)
(***************************************************************************)
JAbsent == [k |-> "absent", n |-> 0, d |-> 0, s |-> <<>>, b |-> FALSE]
JNull == [k |-> "null", n |-> 0, d |-> 0, s |-> <<>>, b |-> FALSE]
JBool(x) == [k |-> "bool", n |-> 0, d |-> 0, s |-> <<>>, b |-> x]
JInt(x) == [k |-> "int", n |-> x, d |-> 0, s |-> <<>>, b |-> FALSE]
JFloat(x, tenths) == [k |-> "float", n |-> x, d |-> tenths, s |-> <<>>, b |-> FALSE]
JStr(x) == [k |-> "str", n |-> 0, d |-> 0, s |-> x, b |-> FALSE]

\* the results of the manifest readers: a value, None, or SystemExit
Some(x) == [tag |-> "some", val |-> x]
None == [tag |-> "none", val |-> 0]
Exit == [tag |-> "exit", val |-> 0]

\* _manifest_int(data, key): int(data[key]); a float is truncated, a text
\* is stripped and parsed, a boolean counts as 0 or 1
manifest_int(v) ==
  CASE v.k = "absent" -> None
    [] v.k = "int" -> Some(v.n)
    [] v.k = "float" -> Some(v.n)
    [] v.k = "bool" -> Some(IF v.b THEN 1 ELSE 0)
    [] v.k = "str" -> IF int_parses(strip(v.s)) THEN Some(to_int(strip(v.s))) ELSE Exit
    [] OTHER -> Exit

\* str.lower() of one character
lower_char(ch) ==
  CASE ch = "T" -> "t" [] ch = "R" -> "r" [] ch = "U" -> "u" [] ch = "E" -> "e"
    [] ch = "F" -> "f" [] ch = "A" -> "a" [] ch = "L" -> "l" [] ch = "S" -> "s"
    [] OTHER -> ch

lower(s) == [i \in 1..Len(s) |-> lower_char(s[i])]

\* a reader that takes the truth value of a value of another type
manifest_bool_truthy(v) ==
  CASE v.k = "absent" -> None
    [] v.k = "bool" -> Some(IF v.b THEN 1 ELSE 0)
    [] v.k = "str" ->
         IF lower(strip(v.s)) = <<"t", "r", "u", "e">> THEN Some(1)
         ELSE IF lower(strip(v.s)) = <<"f", "a", "l", "s", "e">> THEN Some(0)
         ELSE Exit
    [] v.k = "int" -> Some(IF v.n # 0 THEN 1 ELSE 0)
    [] OTHER -> Exit

\* _manifest_bool(data, key)
manifest_bool(v) ==
  CASE v.k = "absent" -> None
    [] v.k = "bool" -> Some(IF v.b THEN 1 ELSE 0)
    [] v.k = "str" ->
         IF lower(strip(v.s)) = <<"t", "r", "u", "e">> THEN Some(1)
         ELSE IF lower(strip(v.s)) = <<"f", "a", "l", "s", "e">> THEN Some(0)
         ELSE Exit
    [] OTHER -> Exit

\* Python truth value of a JSON value ("if not manifest_sha")
truthy(v) ==
  CASE v.k = "bool" -> v.b
    [] v.k = "int" -> v.n # 0
    [] v.k = "float" -> v.n # 0 \/ v.d # 0
    [] v.k = "str" -> v.s # <<>>
    [] OTHER -> FALSE

\* "_manifest_int(...) or 0"
int_or_0(r) == IF r.tag = "some" THEN r.val ELSE 0

\* manifest_duplicates, lines 278-280
manifest_duplicates_of(duplicates_found, duplicate_values, duplicate_occurrences) ==
  duplicates_found \/ duplicate_values > 0 \/ duplicate_occurrences > 0

\* _load_duplicate_codes: {line.strip() for line in f if line.strip()}
load_duplicate_codes(lines) ==
  {strip(lines[i]) : i \in {j \in 1..Len(lines) : strip(lines[j]) # <<>>}}

(***************************************************************************)
(* Paths (pathlib).  A path text is a sequence whose "/" items separate    *)
(* components and whose other items are one component each.                *)
(***************************************************************************)
cwd == <<"w">>

NotSlash(c) == c # "/"

\* Path(text)
Path(text) ==
  [abs |-> text # <<>> /\ Head(text) = "/", parts |-> SelectSeq(text, NotSlash)]

\* Path.parent
path_parent(p) ==
  IF p.parts = <<>> THEN p
  ELSE [p EXCEPT !.parts = SubSeq(p.parts, 1, Len(p.parts) - 1)]

\* a / b
path_join(a, b) ==
  IF b.abs THEN b ELSE [abs |-> a.abs, parts |-> a.parts \o b.parts]

\* ".." removes the component before it, "." is dropped
RECURSIVE collapse(_, _)
collapse(done, rest) ==
  IF rest = <<>> THEN done
  ELSE IF Head(rest) = "." THEN collapse(done, Tail(rest))
  ELSE IF Head(rest) = ".."
       THEN collapse(IF done = <<>> THEN done
                     ELSE SubSeq(done, 1, Len(done) - 1), Tail(rest))
  ELSE collapse(Append(done, Head(rest)), Tail(rest))

\* Path.resolve(): absolute, against the working directory, normalised
path_resolve(p) ==
  [abs |-> TRUE,
   parts |-> collapse(<<>>, IF p.abs THEN p.parts ELSE cwd \o p.parts)]

\* the file a path names when it is opened
opened(p) == path_resolve(p).parts

(***************************************************************************)
(* State of one importer run.                                              *)
(***************************************************************************)
VARIABLES
  pc,    \* position of main(): start, manifest, policy, dupgate, open,
         \* connect, read, flush, attempt, copied, resolve, final, metadata,
         \* done, aborted
  err,   \* the error main() ended with ("" while it runs or succeeded)
  args,  \* the parsed command line (argparse.Namespace)
  fs,    \* the files: the input's identity, the manifest, the key lists
  gate,  \* locals of the Manifest Gate
  ld,    \* locals of the loader: buffers, counters, seen_codes, duplicate_best
  fl,    \* locals of flush()/copy_with_retry(): kind, data, attempt, caller
  db,    \* the database: connection, committed tables, open transaction
  log,   \* what the run logged and did: events, sleeps, rollbacks
  hist,  \* history of the run: rows read, what the row loop made of each,
         \* rows emitted to the buffers
  pf,    \* the preflight run: position, arguments, files, scan counters
  fn,    \* one call of a pure function: its name, its input, its result
  us     \* the USDA importer loading one table: file, table, counters

vars == << pc, err, args, fs, gate, ld, fl, db, log, hist, pf, fn, us >>

\* raise SystemExit(...) / an exception leaving main(); finally: logger.close()
Abort(e) ==
  /\ pc' = "aborted"
  /\ err' = e
  /\ log' = [log EXCEPT !.closed = TRUE]

NoPath == [abs |-> FALSE, parts |-> <<>>]

\* no preflight run, no function call, in the state
NoPreflight == [pc |-> "idle"]

NoCall == [op |-> "none"]

\* no USDA table load in the state
NoUsda == [pc |-> "idle"]

(***************************************************************************)
(* Manifest Gate, lines 229-299.                                           *)
(***************************************************************************)
\* the identity checks with --expected-sha256 compared only without a manifest
identity_error_manifest_only ==
  IF ~fs.tsv_exists THEN "Missing input"
  ELSE IF args.expected_sha256 = <<>> /\ ~args.has_manifest
    THEN "Missing preflight identity"
  ELSE IF args.expected_sha256 # <<>> /\ ~args.has_manifest
          /\ fs.tsv_sha256 # args.expected_sha256
    THEN "SHA-256 mismatch"
  ELSE ""

\* the error of lines 229-248, "" when the identity checks pass
identity_error ==
  IF ~fs.tsv_exists THEN "Missing input"
  ELSE IF args.expected_sha256 = <<>> /\ ~args.has_manifest
    THEN "Missing preflight identity"
  ELSE IF args.expected_sha256 # <<>> /\ fs.tsv_sha256 # args.expected_sha256
    THEN "SHA-256 mismatch"
  ELSE ""

\* lines 229-248: input present, identity given, --expected-sha256 matches
CheckIdentity ==
  /\ pc = "start"
  /\ UNCHANGED << args, fs, pf, fn, gate, ld, fl, db, hist, us >>
  /\ IF identity_error # "" THEN Abort(identity_error)
     ELSE pc' = "manifest" /\ UNCHANGED << err, log >>

\* the error of lines 252-275 for a manifest m, "" when it passes
manifest_error(m) ==
  IF ~truthy(m.file_sha256) THEN "Preflight manifest missing file_sha256"
  ELSE IF ~(m.file_sha256.k = "str" /\ m.file_sha256.s = fs.tsv_sha256)
    THEN "Preflight SHA-256 mismatch"
  ELSE IF manifest_int(m.file_bytes) = Exit THEN "Invalid preflight manifest field"
  ELSE IF manifest_int(m.file_bytes) = None THEN "Preflight manifest missing file_bytes"
  ELSE IF manifest_int(m.file_bytes).val # fs.tsv_bytes
    THEN "Preflight byte-size mismatch"
  ELSE IF manifest_bool(m.duplicates_found) = Exit THEN "Invalid preflight manifest field"
  ELSE IF manifest_bool(m.duplicates_found) = None
    THEN "Preflight manifest missing duplicates_found"
  ELSE IF m.duplicate_codes_path.k \notin {"absent", "null", "str"}
    THEN "Preflight manifest duplicate_codes_path must be a string"
  ELSE IF manifest_int(m.duplicate_values) = Exit
          \/ manifest_int(m.duplicate_occurrences) = Exit
    THEN "Invalid preflight manifest field"
  ELSE ""

\* lines 250-280: the manifest is loaded and cross-checked
CheckManifest ==
  /\ pc = "manifest"
  /\ UNCHANGED << args, fs, pf, fn, ld, fl, db, hist, us >>
  /\ IF ~args.has_manifest
       THEN /\ pc' = "policy"
            /\ gate' = [gate EXCEPT !.manifest_duplicates = FALSE,
                                    !.manifest_duplicate_codes_path = <<>>]
            /\ UNCHANGED << err, log >>
     ELSE IF fs.manifest_file # "ok"
       THEN Abort(fs.manifest_file) /\ UNCHANGED gate
     ELSE IF manifest_error(fs.manifest) # ""
       THEN Abort(manifest_error(fs.manifest)) /\ UNCHANGED gate
     ELSE /\ pc' = "policy"
          /\ gate' = [gate EXCEPT
               !.manifest_duplicates =
                  manifest_duplicates_of(
                    manifest_bool(fs.manifest.duplicates_found).val = 1,
                    int_or_0(manifest_int(fs.manifest.duplicate_values)),
                    int_or_0(manifest_int(fs.manifest.duplicate_occurrences))),
               !.manifest_duplicate_codes_path = fs.manifest.duplicate_codes_path.s]
          /\ UNCHANGED << err, log >>

\* line 282: the two duplicate mechanisms were both asked for
flags_conflict == args.dedupe = "memory" /\ args.has_duplicate_codes

\* lines 285-291: the path of the key list in effect (NoPath: none)
duplicate_codes_path_of ==
  IF args.has_duplicate_codes THEN Path(args.duplicate_codes)
  ELSE IF gate.manifest_duplicate_codes_path # <<>>
    THEN IF Path(gate.manifest_duplicate_codes_path).abs
           THEN Path(gate.manifest_duplicate_codes_path)
         ELSE path_resolve(path_join(path_parent(Path(args.preflight_manifest)),
                                     Path(gate.manifest_duplicate_codes_path)))
  ELSE NoPath

has_duplicate_codes_path ==
  args.has_duplicate_codes \/ gate.manifest_duplicate_codes_path # <<>>

\* lines 282-294: flag conflict, then the key list is located and loaded
ResolveDuplicateCodes ==
  /\ pc = "policy"
  /\ UNCHANGED << args, fs, pf, fn, ld, fl, db, hist, us >>
  /\ IF flags_conflict
       THEN Abort("Use either --dedupe memory or --duplicate-codes, not both.")
            /\ UNCHANGED gate
     ELSE IF ~has_duplicate_codes_path
       THEN /\ pc' = "dupgate"
            /\ gate' = [gate EXCEPT !.duplicate_codes_path = NoPath,
                                    !.list_loaded = FALSE,
                                    !.duplicate_codes = {}]
            /\ UNCHANGED << err, log >>
     ELSE IF opened(duplicate_codes_path_of) \notin DOMAIN fs.files
       THEN Abort("Missing duplicate codes file") /\ UNCHANGED gate
     ELSE /\ pc' = "dupgate"
          /\ gate' = [gate EXCEPT
               !.duplicate_codes_path = duplicate_codes_path_of,
               !.list_loaded = TRUE,
               !.duplicate_codes =
                  load_duplicate_codes(fs.files[opened(duplicate_codes_path_of)])]
          /\ UNCHANGED << err, log >>

\* the gate testing "duplicate_codes is None" instead of "not duplicate_codes"
gate_rejects_unloaded(manifest_duplicates, dedupe, duplicate_codes) ==
  manifest_duplicates /\ dedupe = "none" /\ ~gate.list_loaded

\* line 296: duplicates reported and neither mechanism in effect
gate_rejects(manifest_duplicates, dedupe, duplicate_codes) ==
  manifest_duplicates /\ dedupe = "none" /\ duplicate_codes = {}

\* lines 296-299: the duplicate-policy gate
DuplicateGate ==
  /\ pc = "dupgate"
  /\ UNCHANGED << args, fs, pf, fn, gate, ld, fl, db, hist, us >>
  /\ IF gate_rejects(gate.manifest_duplicates, args.dedupe, gate.duplicate_codes)
       THEN Abort("Preflight reported duplicates")
     ELSE pc' = "open" /\ UNCHANGED << err, log >>

\* lines 301-354: the input is opened, the header read, "code" required
OpenInput ==
  /\ pc = "open"
  /\ UNCHANGED << args, fs, pf, fn, gate, ld, fl, db, hist, us >>
  /\ IF fs.headers = <<>> THEN Abort("Empty file")
     ELSE IF header_to_index(fs.headers, "code") = 0
       THEN Abort("Input is missing required column: code")
     ELSE pc' = "connect" /\ UNCHANGED << err, log >>

\* an importer that opens the connection before the gate
ConnectAtStart ==
  /\ pc = "start" /\ ~db.connected
  /\ db' = [db EXCEPT !.connected = TRUE]
  /\ UNCHANGED << pc, err, log, args, fs, pf, fn, gate, ld, fl, hist, us >>

\* lines 356-376: connect, run the DDL, commit (and TRUNCATE when asked);
\* the connection or a statement may fail
Connect ==
  /\ pc = "connect"
  /\ UNCHANGED << args, fs, pf, fn, gate, ld, fl, hist, us >>
  /\ \/ /\ db' = [db EXCEPT !.connected = TRUE]
        /\ pc' = "read"
        /\ UNCHANGED << err, log >>
     \/ /\ Abort("database error")
        /\ UNCHANGED db

(***************************************************************************)
(* Chunked Bulk Loader: the database collaborator.                         *)
(***************************************************************************)
\* key of a line in its table: code_norm, or (code_norm, nutrient_key)
row_key(kind, line) ==
  IF kind = "product_raw" THEN << line[1] >>
  ELSE << line.code_norm, line.nutrient_key >>

\* the primary key of `kind` admits `lines` on top of the committed rows
pk_admits(kind, committed, lines) ==
  LET all == committed \o lines
  IN  \A i, j \in 1..Len(all) :
        i # j => row_key(kind, all[i]) # row_key(kind, all[j])

\* "with cur.copy(stmt) as copy: copy.write(data)": rows join the transaction
db_copy(d, data) == [d EXCEPT !.tx = d.tx \o data]

\* conn.commit(): the rows of the transaction become rows of the table
db_commit(d, kind) == [d EXCEPT ![kind] = d[kind] \o d.tx, !.tx = <<>>]

\* conn.rollback(): the rows of the transaction are discarded
db_rollback(d) == [d EXCEPT !.tx = <<>>]

(***************************************************************************)
(* flush() and copy_with_retry(), lines 419-461.                           *)
(***************************************************************************)
buf_name(kind) == IF kind = "product_raw" THEN "product_buf" ELSE "nutrient_buf"

buf_of(kind) == ld[buf_name(kind)]

\* a loader that sends the nutrient rows of a chunk first
flush_order_nutrients_first == << "nutrient_100g", "product_raw" >>

\* lines 591-596, 613-618, 622-627: the product buffer is flushed, then the
\* nutrient buffer
flush_order == << "product_raw", "nutrient_100g" >>

\* locals of flush()/copy_with_retry() outside a call
NoFlush ==
  [kind |-> "", ret |-> "", data |-> <<>>, base |-> <<>>, sent |-> <<>>,
   attempt |-> 0, tries |-> 0, sers |-> 0, others |-> 0, rollbacks |-> 0,
   sleeps |-> 0, retry_events |-> 0, committed |-> FALSE]

\* flush(buf, stmt, rows_in_chunk, kind=kind) is called; ret is where the
\* caller continues after the nutrient flush
call_flush(kind, ret) == [NoFlush EXCEPT !.kind = kind, !.ret = ret]

\* range(args.retries + 1) has a first attempt
loop_runs(retries) == retries + 1 > 0

\* lines 456-459: empty buffer returns at once, else copy_with_retry starts
StartFlush ==
  /\ pc = "flush"
  /\ UNCHANGED << err, args, fs, pf, fn, gate, db, log, hist, us >>
  /\ IF buf_of(fl.kind) = <<>>
       THEN IF fl.kind = flush_order[1]
              THEN pc' = "flush" /\ ld' = ld
                   /\ fl' = call_flush(flush_order[2], fl.ret)
            ELSE /\ pc' = fl.ret
                 /\ fl' = NoFlush
                 /\ ld' = IF fl.ret = "metadata" THEN ld
                          ELSE [ld EXCEPT !.rows_in_chunk = 0]
     ELSE /\ ld' = ld
          /\ fl' = [fl EXCEPT !.data = buf_of(fl.kind), !.base = db[fl.kind]]
          /\ pc' = IF loop_runs(args.retries) THEN "attempt" ELSE "copied"

\* the buffer read as a stream: a later attempt finds it consumed
copy_payload_consumed(data, attempt) == IF attempt = 0 THEN data ELSE <<>>

\* line 429: the text written to COPY on attempt number `attempt`
copy_payload(data, attempt) == data

\* lines 428-431: COPY and COMMIT succeed; copy_with_retry returns
CopyCommitted ==
  /\ pc = "attempt"
  /\ pk_admits(fl.kind, db[fl.kind], db.tx \o copy_payload(fl.data, fl.attempt))
  /\ db' = db_commit(db_copy(db, copy_payload(fl.data, fl.attempt)), fl.kind)
  /\ fl' = [fl EXCEPT !.tries = @ + 1, !.sent = copy_payload(fl.data, fl.attempt),
                      !.committed = TRUE]
  /\ pc' = "copied"
  /\ UNCHANGED << err, args, fs, pf, fn, gate, ld, log, hist, us >>

\* a handler that catches every database error
retryable_any(error) == TRUE

\* line 432: the error class the retry handler catches
retryable(error) == error = "SerializationFailure"

\* the bound compared one attempt late
exhausted_late(attempt, retries) == attempt > retries

\* line 434: no attempt is left
exhausted(attempt, retries) == attempt >= retries

\* lines 433, 450: what both handlers do to the transaction first
on_error(d) == db_rollback(d)

\* fl after one failed attempt: counters of the attempt and of the handler
after_failure(f, error, retried) ==
  [f EXCEPT !.tries = @ + 1,
            !.sent = copy_payload(f.data, f.attempt),
            !.sers = @ + (IF error = "SerializationFailure" THEN 1 ELSE 0),
            !.others = @ + (IF error = "SerializationFailure" THEN 0 ELSE 1),
            !.rollbacks = @ + 1,
            !.retry_events = @ + (IF retried THEN 1 ELSE 0),
            !.sleeps = @ + (IF retried THEN 1 ELSE 0),
            !.attempt = @ + (IF retried THEN 1 ELSE 0)]

\* lines 432-451: COPY (rows not yet in the transaction) or COMMIT (rows in
\* it) raises; the handler rolls back, and either logs "retry", sleeps and
\* loops, or re-raises
CopyFailed ==
  /\ pc = "attempt"
  /\ \E at \in {"copy", "commit"}, error \in {"SerializationFailure", "DatabaseError"} :
       /\ db' = on_error(IF at = "copy" THEN db
                         ELSE db_copy(db, copy_payload(fl.data, fl.attempt)))
       /\ IF retryable(error) /\ ~exhausted(fl.attempt, args.retries)
            THEN /\ fl' = after_failure(fl, error, TRUE)
                 /\ pc' = "attempt"
                 /\ UNCHANGED << err, log >>
          ELSE /\ fl' = after_failure(fl, error, FALSE)
               /\ Abort(error)
  /\ UNCHANGED << args, fs, pf, fn, gate, ld, hist, us >>

\* lines 460-461 and the caller's next statement: "chunk_commit" is logged,
\* the buffer replaced by an empty one; after the product flush comes the
\* nutrient flush, after that rows_in_chunk = 0 (not after the final flush)
FlushReturn ==
  /\ pc = "copied"
  /\ UNCHANGED << err, args, fs, pf, fn, gate, db, hist, us >>
  /\ log' = [log EXCEPT !.chunk_commits = @ + 1]
  /\ IF fl.kind = flush_order[1]
       THEN /\ ld' = [ld EXCEPT ![buf_name(fl.kind)] = <<>>]
            /\ fl' = call_flush(flush_order[2], fl.ret)
            /\ pc' = "flush"
     ELSE /\ ld' = IF fl.ret = "metadata" THEN [ld EXCEPT ![buf_name(fl.kind)] = <<>>]
                   ELSE [ld EXCEPT ![buf_name(fl.kind)] = <<>>, !.rows_in_chunk = 0]
          /\ fl' = NoFlush
          /\ pc' = fl.ret

(***************************************************************************)
(* The row loop of main(), lines 484-597.                                  *)
(***************************************************************************)
\* line 485: the --max-rows cap is reached
cap_reached == args.max_rows # 0 /\ ld.products >= args.max_rows

\* position of code_norm in duplicate_best (a dict in insertion order), or 0
best_index(best, code_norm) ==
  IF \E i \in 1..Len(best) : best[i].code_norm = code_norm
  THEN CHOOSE i \in 1..Len(best) : best[i].code_norm = code_norm
  ELSE 0

\* line 579: the new candidate replaces the retained one
replaces(score, existing_score) == score_greater(score, existing_score)

\* a resolver that keeps every candidate
offer_append(best, cand) == Append(best, cand)

\* lines 578-580: duplicate_best after a candidate is offered
offer(best, cand) ==
  LET i == best_index(best, cand.code_norm)
  IN  IF i = 0 THEN Append(best, cand)
      ELSE IF replaces(cand.score, best[i].score) THEN [best EXCEPT ![i] = cand]
      ELSE best

\* a row loop without the Duplicate Resolver branch
is_flagged_never(code_norm) == FALSE

\* a row loop that sends every keyed row to the Duplicate Resolver
is_flagged_any(code_norm) == TRUE

\* line 572: the row goes to the Duplicate Resolver
is_flagged(code_norm) == code_norm \in gate.duplicate_codes

\* a row loop that never takes a key for seen
already_seen_never(code_norm) == FALSE

\* lines 493-494: --dedupe memory has seen the key
already_seen(code_norm) == args.dedupe = "memory" /\ code_norm \in ld.seen_codes

\* buffers written without the products counter
emit_uncounted(l, product_line, nutrient_lines, nutrient_count) ==
  [l EXCEPT !.product_buf = Append(@, product_line),
            !.nutrient_buf = @ \o nutrient_lines,
            !.nutrients = @ + nutrient_count,
            !.rows_in_chunk = @ + 1]

\* lines 583-588 and 605-611: one product line and its nutrient lines are
\* written to the buffers, the counters advance
emit(l, product_line, nutrient_lines, nutrient_count) ==
  [l EXCEPT !.product_buf = Append(@, product_line),
            !.nutrient_buf = @ \o nutrient_lines,
            !.products = @ + 1,
            !.nutrients = @ + nutrient_count,
            !.rows_in_chunk = @ + 1]

\* lines 590, 612: the chunk is full
chunk_full(rows_in_chunk) == rows_in_chunk >= args.chunk_rows

emitted_entry(product_line, nutrient_lines, via) ==
  [code_norm |-> line_key(product_line), product_line |-> product_line,
   nutrient_lines |-> nutrient_lines, via |-> via]

\* what the history keeps of a row read: the score is <<>> where int() of
\* last_modified_t raises
made_of(t) ==
  [code_norm |-> t.code_norm,
   score |-> IF t.base["last_modified_t"] = <<>> \/ int_parses(t.base["last_modified_t"])
               THEN score_of(t.base, t.nutrient_count)
             ELSE <<>>,
   product_line |-> product_line_of(t.base),
   nutrient_lines |-> t.nutrient_lines]

\* one iteration of "for row in reader" for the next row of the file
ProcessRow(row) ==
  /\ pc = "read"
  /\ Len(hist.rows_read) < MaxFileRows
  /\ ~cap_reached
  /\ UNCHANGED << args, fs, pf, fn, gate, db, us >>
  /\ \E t \in {transform(fs.headers, row, args.nutrients, args.include_salt)} :
     \E made \in {made_of(t)} :
     \E seen \in {IF args.dedupe = "memory" THEN ld.seen_codes \cup {t.code_norm}
                  ELSE ld.seen_codes} :
       IF t.code_norm = <<>>
         THEN /\ ld' = [ld EXCEPT !.skipped_no_code = @ + 1]
              /\ hist' = [hist EXCEPT !.rows_read = Append(@, row),
                                      !.seen = Append(@, made)]
              /\ UNCHANGED << pc, err, fl, log >>
       ELSE IF already_seen(t.code_norm)
         THEN /\ ld' = [ld EXCEPT !.skipped_duplicate_code = @ + 1]
              /\ hist' = [hist EXCEPT !.rows_read = Append(@, row),
                                      !.seen = Append(@, made)]
              /\ UNCHANGED << pc, err, fl, log >>
       ELSE IF is_flagged(t.code_norm)
         THEN IF made.score = <<>>
                THEN /\ Abort("ValueError")
                     /\ hist' = [hist EXCEPT !.rows_read = Append(@, row),
                                             !.seen = Append(@, made)]
                     /\ UNCHANGED << ld, fl >>
              ELSE /\ ld' = [ld EXCEPT !.seen_codes = seen,
                                       !.duplicate_best = offer(@, made)]
                   /\ hist' = [hist EXCEPT !.rows_read = Append(@, row),
                                           !.seen = Append(@, made)]
                   /\ UNCHANGED << pc, err, fl, log >>
       ELSE /\ ld' = [emit(ld, made.product_line, t.nutrient_lines, t.nutrient_count)
                        EXCEPT !.seen_codes = seen]
            /\ hist' = [hist EXCEPT
                   !.rows_read = Append(@, row),
                   !.seen = Append(@, made),
                   !.emitted = Append(@, emitted_entry(made.product_line,
                                                       t.nutrient_lines, "stream"))]
            /\ IF chunk_full(ld.rows_in_chunk + 1)
                 THEN pc' = "flush" /\ fl' = call_flush(flush_order[1], "read")
               ELSE UNCHANGED << pc, fl >>
            /\ UNCHANGED << err, log >>

\* line 486: break, a further row exists but the cap is reached
MaxRowsBreak ==
  /\ pc = "read"
  /\ Len(hist.rows_read) < MaxFileRows
  /\ cap_reached
  /\ pc' = "resolve"
  /\ UNCHANGED << err, args, fs, pf, fn, gate, ld, fl, db, log, hist, us >>

\* the reader is exhausted: the loop ends
EndOfStream ==
  /\ pc = "read"
  /\ pc' = "resolve"
  /\ UNCHANGED << err, args, fs, pf, fn, gate, ld, fl, db, log, hist, us >>

(***************************************************************************)
(* End of stream, lines 599-660.                                           *)
(***************************************************************************)
\* lines 599-619: one iteration of "for ... in duplicate_best.items()"
ResolveDuplicate ==
  /\ pc = "resolve"
  /\ ld.resolve_pos <= Len(ld.duplicate_best)
  /\ UNCHANGED << err, args, fs, pf, fn, gate, db, log, us >>
  /\ LET c == ld.duplicate_best[ld.resolve_pos]
     IN  /\ ld' = [emit(ld, c.product_line, c.nutrient_lines, Len(c.nutrient_lines))
                     EXCEPT !.duplicates_resolved = @ + 1,
                            !.resolve_pos = @ + 1]
         /\ hist' = [hist EXCEPT !.emitted =
               Append(@, emitted_entry(c.product_line, c.nutrient_lines, "resolve"))]
  /\ IF chunk_full(ld.rows_in_chunk + 1)
       THEN pc' = "flush" /\ fl' = call_flush(flush_order[1], "resolve")
     ELSE UNCHANGED << pc, fl >>

\* lines 621-627: the final flush of a non-empty remainder
FinalFlush ==
  /\ pc = "resolve"
  /\ ld.resolve_pos > Len(ld.duplicate_best)
  /\ UNCHANGED << err, args, fs, pf, fn, gate, ld, db, log, hist, us >>
  /\ IF ld.rows_in_chunk # 0
       THEN pc' = "flush" /\ fl' = call_flush(flush_order[1], "metadata")
     ELSE pc' = "metadata" /\ UNCHANGED fl

\* lines 629-643: the import_metadata row is inserted and committed
InsertMetadata ==
  /\ pc = "metadata"
  /\ UNCHANGED << args, fs, pf, fn, gate, ld, fl, hist, us >>
  /\ \/ /\ db' = [db EXCEPT !.import_metadata = @ + 1]
        /\ pc' = "indexes"
        /\ UNCHANGED << err, log >>
     \/ /\ Abort("DatabaseError")
        /\ UNCHANGED db

\* lines 645-660: index DDL unless --skip-indexes, the "done" event, return 0
Finish ==
  /\ pc = "indexes"
  /\ UNCHANGED << args, fs, pf, fn, gate, ld, fl, db, hist, us >>
  /\ \/ /\ pc' = "done"
        /\ log' = [log EXCEPT
              !.closed = TRUE,
              !.done = [products |-> ld.products, nutrients |-> ld.nutrients,
                        skipped_no_code |-> ld.skipped_no_code,
                        skipped_duplicate_code |-> ld.skipped_duplicate_code,
                        duplicates_resolved |-> ld.duplicates_resolved]]
        /\ UNCHANGED err
     \/ /\ ~args.skip_indexes
        /\ Abort("DatabaseError")

(***************************************************************************)
(* Inputs.                                                                 *)
(***************************************************************************)
\* header of the input file of the model
Hdr ==
  << "code", "product_name", "last_modified_t", "energy-kj_100g", "energy_100g",
     "fat_100g" >>

Row(code, name, lm, fat) == << code, name, lm, <<>>, <<>>, fat >>

\* the data rows a file of the model is made of: one without a key, five
\* of key 1 with scores (1,0,1) twice, (1,1,1), (2,0,1), (1,0,2), one of key 2
SampleRows ==
  { Row(<<"x">>, <<>>, <<>>, <<>>),
    Row(<<"1">>, <<>>, <<"1">>, <<>>),
    Row(<<"1", "x">>, <<>>, <<"1">>, <<>>),
    Row(<<"1">>, <<>>, <<"1">>, <<"5">>),
    Row(<<"1">>, <<>>, <<"2">>, <<>>),
    Row(<<"1">>, <<"n">>, <<" ", "1">>, <<>>),
    Row(<<" ", "2">>, <<"n">>, <<>>, <<"5">>) }

\* SHA-256 and size of the live input file
LiveSha == <<"a">>
LiveBytes == 1 + 1

\* the manifest preflight wrote for the live file, with a sidecar key list
GoodManifest ==
  [file_sha256 |-> JStr(LiveSha), file_bytes |-> JInt(LiveBytes),
   duplicates_found |-> JBool(TRUE), duplicate_values |-> JInt(1),
   duplicate_occurrences |-> JInt(1), duplicate_codes_path |-> JStr(<<"side">>)]

\* the key-list files on disk: the sidecar beside the manifest out/m, and
\* the list the command line names
ManifestPath == <<"out", "/", "m">>
SidecarFile == <<"w", "out", "side">>
CliListPath == <<"cli">>
CliListFile == <<"w", "cli">>

Files(side, cli) == [f \in {SidecarFile, CliListFile} |-> IF f = SidecarFile THEN side ELSE cli]

Args(expected, has_manifest, has_codes, dedupe, chunk_rows, max_rows, retries) ==
  [expected_sha256 |-> expected, has_manifest |-> has_manifest,
   preflight_manifest |-> ManifestPath, has_duplicate_codes |-> has_codes,
   duplicate_codes |-> CliListPath, dedupe |-> dedupe, chunk_rows |-> chunk_rows,
   max_rows |-> max_rows, retries |-> retries, nutrients |-> "minimal",
   include_salt |-> FALSE, skip_indexes |-> FALSE]

Disk(exists, headers, manifest_file, manifest, files) ==
  [tsv_exists |-> exists, tsv_sha256 |-> LiveSha, tsv_bytes |-> LiveBytes,
   headers |-> headers, manifest_file |-> manifest_file, manifest |-> manifest,
   files |-> files]

\* the importer at position p; "start" is the state after _parse_args and
\* Logger(...), before the first check; "idle" is no importer run
importer_at(p, a, f) ==
  /\ pc = p
  /\ err = ""
  /\ args = a
  /\ fs = f
  /\ gate = [manifest_duplicates |-> FALSE, manifest_duplicate_codes_path |-> <<>>,
             duplicate_codes_path |-> NoPath, list_loaded |-> FALSE,
             duplicate_codes |-> {}]
  /\ ld = [product_buf |-> <<>>, nutrient_buf |-> <<>>, rows_in_chunk |-> 0,
           products |-> 0, nutrients |-> 0, skipped_no_code |-> 0,
           skipped_duplicate_code |-> 0, seen_codes |-> {},
           duplicate_best |-> <<>>, duplicates_resolved |-> 0, resolve_pos |-> 1]
  /\ fl = NoFlush
  /\ db = [connected |-> FALSE, product_raw |-> <<>>, nutrient_100g |-> <<>>,
           import_metadata |-> 0, tx |-> <<>>]
  /\ log = [closed |-> FALSE, chunk_commits |-> 0,
            done |-> [products |-> 0, nutrients |-> 0, skipped_no_code |-> 0,
                      skipped_duplicate_code |-> 0, duplicates_resolved |-> 0]]
  /\ hist = [rows_read |-> <<>>, seen |-> <<>>, emitted |-> <<>>]

InitWith(a, f) ==
  importer_at("start", a, f) /\ pf = NoPreflight /\ fn = NoCall /\ us = NoUsda

(***************************************************************************)
(* Spec: import runs over every file of at most MaxFileRows sample rows,   *)
(* the identity given by --expected-sha256.  PolicyArgs runs every         *)
(* combination of manifest, --duplicate-codes and --dedupe without         *)
(* retries; RetryArgs runs every --retries value with --duplicate-codes.   *)
(***************************************************************************)
PolicyArgs ==
  { Args(LiveSha, m, c, d, cr, mr, 0) :
      m \in BOOLEAN, c \in BOOLEAN, d \in {"none", "memory"},
      cr \in 1..MaxChunkRows, mr \in 0..MaxMaxRows }

RetryArgs ==
  { Args(LiveSha, FALSE, TRUE, "none", cr, mr, r) :
      cr \in 1..MaxChunkRows, mr \in 0..MaxMaxRows, r \in (0 - 1)..MaxRetries }

LoadArgs == PolicyArgs \cup RetryArgs

LoadDisk ==
  Disk(TRUE, Hdr, "ok", GoodManifest,
       Files(<< <<"1">> >>, << <<"1">>, <<>>, <<"2", " ">> >>))

Init == \E a \in LoadArgs : InitWith(a, LoadDisk)

GateNext ==
  \/ CheckIdentity
  \/ CheckManifest
  \/ ResolveDuplicateCodes
  \/ DuplicateGate
  \/ OpenInput
  \/ Connect

Next ==
  \/ GateNext
  \/ \E row \in SampleRows : ProcessRow(row)
  \/ MaxRowsBreak
  \/ EndOfStream
  \/ StartFlush
  \/ CopyCommitted
  \/ CopyFailed
  \/ FlushReturn
  \/ ResolveDuplicate
  \/ FinalFlush
  \/ InsertMetadata
  \/ Finish

Spec == Init /\ [][Next]_vars

(***************************************************************************)
(* GateSpec: the Manifest Gate up to the connection, over every command    *)
(* line and manifest below.                                                *)
(***************************************************************************)
GateManifests ==
  { [file_sha256 |-> sha, file_bytes |-> bytes, duplicates_found |-> found,
     duplicate_values |-> vals, duplicate_occurrences |-> occ,
     duplicate_codes_path |-> path] :
      sha \in {JAbsent, JStr(LiveSha), JStr(<<"b">>)},
      bytes \in {JAbsent, JInt(LiveBytes), JInt(LiveBytes + 1), JFloat(LiveBytes, 5),
                 JStr(<<" ", "2">>), JStr(<<"x">>)},
      found \in {JAbsent, JBool(TRUE), JBool(FALSE), JStr(<<"T", "r", "u", "e", " ">>),
                 JStr(<<" ", "f", "A", "L", "s", "e">>), JStr(<<"x">>), JInt(1)},
      vals \in {JAbsent, JInt(0), JInt(1), JFloat(0, 5)},
      occ \in {JAbsent, JInt(0), JInt(1)},
      path \in {JAbsent, JStr(<<"side">>), JStr(<<"/", "w", "out", "side">>), JInt(1)} }

\* the sidecar absent, without keys, or with key 1
GateFiles ==
  { [f \in {CliListFile} |-> << <<"1">> >>],
    Files(<< <<" ">> >>, << <<"1">> >>),
    Files(<< <<"1">> >>, << <<"1">> >>) }

GateArgs ==
  { Args(e, m, c, d, 1, 0, 0) :
      e \in {<<>>, LiveSha, <<"b">>}, m \in BOOLEAN, c \in BOOLEAN,
      d \in {"none", "memory"} }

InitGate ==
  \/ \E a \in GateArgs, f \in GateFiles :
       \E m \in (IF a.has_manifest THEN GateManifests ELSE {GoodManifest}) :
         InitWith(a, Disk(TRUE, Hdr, "ok", m, f))
  \/ \E h \in {<<>>, <<"product_name">>}, d \in {"none", "memory"} :
       InitWith(Args(LiveSha, TRUE, FALSE, d, 1, 0, 0),
                Disk(TRUE, h, "ok", GoodManifest, Files(<< <<"1">> >>, <<>>)))
  \/ \E mf \in {"Missing preflight manifest", "Invalid preflight manifest"} :
       InitWith(Args(LiveSha, TRUE, FALSE, "none", 1, 0, 0),
                Disk(TRUE, Hdr, mf, GoodManifest, Files(<<>>, <<>>)))
  \/ InitWith(Args(LiveSha, TRUE, FALSE, "none", 1, 0, 0),
              Disk(FALSE, Hdr, "ok", GoodManifest, Files(<<>>, <<>>)))

GateSpec == InitGate /\ [][GateNext]_vars

(***************************************************************************)
(* Properties of copy_with_retry and flush.                                *)
(***************************************************************************)
occurrences(line, table) == Cardinality({i \in 1..Len(table) : table[i] = line})

\* C1: when the COPY of a chunk fails at least once with a serialization
\* failure and a later attempt succeeds, the table holds what it held before
\* the chunk followed by the rows of the chunk, each of them exactly once,
\* and no transaction is left open.
RetriedChunkStoredOnce ==
  (pc = "copied" /\ fl.committed /\ fl.sers >= 1) =>
    /\ db[fl.kind] = fl.base \o fl.data
    /\ \A i \in 1..Len(fl.data) : occurrences(fl.data[i], db[fl.kind]) = 1
    /\ db.tx = <<>>

\* a chunk committed on the third attempt
RetriedChunkStoredOnceWitness ==
  pc = "copied" /\ fl.committed /\ fl.sers >= 2 /\ fl.data # <<>>

\* C2: every failed attempt is followed by a rollback; every further attempt
\* starts from the table as it was with no open transaction and sends the
\* same data; at most retries + 1 attempts are made (the attempt counter
\* is the number of attempts made and never exceeds retries, so the loop
\* ends); after the last serialization failure the error leaves main()
\* with one sleep less than failures.
RetryBounded ==
  /\ fl.tries <= args.retries + 1
  /\ fl.rollbacks = fl.sers + fl.others
  /\ fl.retry_events = fl.sleeps
  /\ pc = "attempt" =>
       /\ fl.attempt = fl.tries
       /\ fl.attempt <= args.retries
       /\ fl.sleeps = fl.sers
       /\ fl.data = buf_of(fl.kind)
       /\ fl.tries >= 1 => fl.sent = fl.data
       /\ db.tx = <<>>
       /\ db[fl.kind] = fl.base
  /\ (pc = "aborted" /\ err = "SerializationFailure") =>
       /\ fl.tries = args.retries + 1
       /\ fl.sers = fl.tries
       /\ fl.sleeps = fl.sers - 1
       /\ fl.sent = fl.data
       /\ db.tx = <<>>
       /\ db[fl.kind] = fl.base

\* the retries are used up: MaxRetries + 1 attempts, all failed
RetryBoundedWitness ==
  /\ pc = "aborted" /\ err = "SerializationFailure"
  /\ args.retries = MaxRetries /\ fl.tries = MaxRetries + 1

\* the state after a COPY error that is not a serialization failure
after_other_error ==
  fl.others >= 1 =>
    /\ pc = "aborted" /\ err = "DatabaseError"
    /\ fl.others = 1
    /\ fl.tries = fl.sers + 1
    /\ fl.rollbacks = fl.sers + 1
    /\ fl.sleeps = fl.sers
    /\ fl.retry_events = fl.sers
    /\ ~fl.committed
    /\ db.tx = <<>>
    /\ db[fl.kind] = fl.base

\* C3: a COPY error that is not a serialization failure is followed by
\* exactly one rollback and leaves main(): no retry, no sleep, no "retry"
\* event for it, and the run takes no further step (no later chunk).
OtherErrorStops == [][pc # "aborted" /\ after_other_error']_vars

\* a non-serialization error on an attempt that follows a retried one
OtherErrorStopsWitness ==
  pc = "aborted" /\ err = "DatabaseError" /\ fl.others = 1 /\ fl.sers >= 1

(***************************************************************************)
(* Properties of the loader.                                               *)
(***************************************************************************)
persisted(line, table) == \E j \in 1..Len(table) : table[j] = line

\* the chunk (counted from 0) the i-th emitted row was flushed with
chunk_of(i) == (i - 1) \div args.chunk_rows

\* C4: after an abort every chunk is wholly in the database (each of its
\* product rows and each of their nutrient observations) or not at all.
ChunkAtomicAfterAbort ==
  (pc = "aborted" /\ db.connected) =>
    \A i, j \in 1..Len(hist.emitted) :
      chunk_of(i) = chunk_of(j) =>
        LET e == hist.emitted[i]
            f == hist.emitted[j]
        IN  persisted(e.product_line, db.product_raw) =>
              /\ persisted(f.product_line, db.product_raw)
              /\ \A n \in 1..Len(f.nutrient_lines) :
                   persisted(f.nutrient_lines[n], db.nutrient_100g)

\* no key was written twice to the product buffer
KeyWrittenAtMostOnce ==
  \A i, j \in 1..Len(hist.emitted) :
    i # j => hist.emitted[i].code_norm # hist.emitted[j].code_norm

\* C5 as stated: whatever --dedupe, --duplicate-codes and manifest are in
\* effect, a run that passed the gate writes no key twice to the product
\* buffer.
AnyPolicyKeyWrittenOnce == db.connected => KeyWrittenAtMostOnce

\* what the row loop made of each row read: key, score, product line and
\* nutrient lines
rows_seen == hist.seen

\* the keys among rows, and those that more than one row has
keys_in(rows) == {rows[i].code_norm : i \in DOMAIN rows} \ {<<>>}

repeated_in(rows) ==
  {rows[i].code_norm : i \in {a \in DOMAIN rows : \E b \in DOMAIN rows :
                                a # b /\ rows[a].code_norm = rows[b].code_norm}} \ {<<>>}

keys_read == keys_in(rows_seen)

repeated_keys == repeated_in(rows_seen)

policy_covers == args.dedupe = "memory" \/ repeated_keys \subseteq gate.duplicate_codes

\* C5, amended: with --dedupe memory, or with a key list in effect that
\* holds every key read more than once, no key is written twice to the
\* product buffer, no chunk is sent that the primary key of product_raw
\* rejects, and once the resolver is through every key read has been
\* written exactly once.
CoveredKeyWrittenOnce ==
  LET rows == rows_seen
  IN  (db.connected /\ (args.dedupe = "memory"
                          \/ repeated_in(rows) \subseteq gate.duplicate_codes)) =>
        /\ KeyWrittenAtMostOnce
        /\ (pc = "attempt" /\ fl.kind = "product_raw") =>
             pk_admits("product_raw", db.product_raw, fl.data)
        /\ pc \in {"metadata", "indexes", "done"} =>
             {hist.emitted[i].code_norm : i \in 1..Len(hist.emitted)} = keys_in(rows)

\* a finished run over a file with a repeated key, the policy covering it
CoveredKeyWrittenOnceWitness ==
  pc = "done" /\ policy_covers /\ repeated_keys # {} /\ Len(hist.emitted) >= 2

\* the first of the rows of key k whose score no row of key k exceeds
best_row(rows, k) ==
  LET of_key == {i \in DOMAIN rows : rows[i].code_norm = k}
  IN  CHOOSE i \in of_key :
        \A j \in of_key :
          /\ ~score_greater(rows[j].score, rows[i].score)
          /\ j < i => score_greater(rows[i].score, rows[j].score)

\* C6: for every key of the duplicate set the retained row is the one of
\* lexicographically greatest score (last_modified_t or -1, nutrient count,
\* non-empty product fields) among all rows read with that key, the first
\* of them on a tie.
RetainedIsBest ==
  LET rows == rows_seen
  IN  pc # "aborted" =>
        /\ \A k \in keys_in(rows) \cap gate.duplicate_codes :
             \E i \in 1..Len(ld.duplicate_best) : ld.duplicate_best[i].code_norm = k
        /\ \A i \in 1..Len(ld.duplicate_best) :
             ld.duplicate_best[i] = rows[best_row(rows, ld.duplicate_best[i].code_norm)]

\* the same without --dedupe memory beside the key list
RetainedIsBestWithoutMemory == args.dedupe = "none" => RetainedIsBest

is_resolved(e) == e.via = "resolve"

is_streamed(e) == e.via = "stream"

\* C7: no row of a duplicate-set key is written while the rows stream; once
\* the resolver is through, each retained candidate has been written exactly
\* once, in order, one candidate per key of the duplicate set read; and
\* duplicates_resolved, also as the "done" event reports it, is their number.
ResolvedOnceAtEnd ==
  LET streamed == SelectSeq(hist.emitted, is_streamed)
      resolved == SelectSeq(hist.emitted, is_resolved)
  IN  /\ \A i \in 1..Len(streamed) : streamed[i].code_norm \notin gate.duplicate_codes
      /\ pc = "read" => resolved = <<>>
      /\ pc \in {"metadata", "indexes", "done"} =>
           /\ Len(resolved) = Len(ld.duplicate_best)
           /\ \A i \in 1..Len(resolved) :
                /\ resolved[i].product_line = ld.duplicate_best[i].product_line
                /\ resolved[i].nutrient_lines = ld.duplicate_best[i].nutrient_lines
           /\ ld.duplicates_resolved = Len(ld.duplicate_best)
           /\ Len(ld.duplicate_best) = Cardinality(keys_read \cap gate.duplicate_codes)
      /\ pc = "done" => log.done.duplicates_resolved = Len(ld.duplicate_best)

\* a finished run that read a duplicate-set key twice and another once
ResolvedOnceAtEndWitness ==
  /\ pc = "done" /\ log.done.duplicates_resolved >= 2
  /\ repeated_keys \cap gate.duplicate_codes # {}

(***************************************************************************)
(* Properties of the Manifest Gate.                                        *)
(***************************************************************************)
\* the manifest, as _manifest_bool and _manifest_int read it, reports duplicates
manifest_indicates_duplicates ==
  /\ args.has_manifest
  /\ fs.manifest_file = "ok"
  /\ \/ manifest_bool(fs.manifest.duplicates_found) = Some(1)
     \/ int_or_0(manifest_int(fs.manifest.duplicate_values)) > 0
     \/ int_or_0(manifest_int(fs.manifest.duplicate_occurrences)) > 0

\* C8: when the manifest reports duplicates, the input and the database are
\* opened only with --dedupe memory or with a key list in effect that is not
\* empty; the run that ends with the duplicate-policy error had a manifest
\* reporting duplicates, --dedupe none and no key in effect, and opened no
\* database.
DuplicatePolicyGate ==
  /\ (manifest_indicates_duplicates /\ (db.connected \/ pc \in {"open", "connect", "read"})) =>
       (args.dedupe = "memory" \/ gate.duplicate_codes # {})
  /\ (pc = "dupgate" /\ manifest_indicates_duplicates /\ args.dedupe = "none"
        /\ gate.duplicate_codes = {}) =>
       ~ENABLED (DuplicateGate /\ pc' = "open")
  /\ (pc = "aborted" /\ err = "Preflight reported duplicates") =>
       /\ manifest_indicates_duplicates
       /\ args.dedupe = "none"
       /\ gate.duplicate_codes = {}
       /\ ~db.connected
       /\ hist.rows_read = <<>>

\* the gate stops a run whose key list was loaded and holds no key
DuplicatePolicyGateWitness ==
  pc = "aborted" /\ err = "Preflight reported duplicates" /\ gate.list_loaded

identity_established ==
  /\ args.expected_sha256 # <<>> \/ args.has_manifest
  /\ args.expected_sha256 # <<>> => args.expected_sha256 = fs.tsv_sha256
  /\ args.has_manifest =>
       /\ fs.manifest.file_sha256 = JStr(fs.tsv_sha256)
       /\ manifest_int(fs.manifest.file_bytes) = Some(fs.tsv_bytes)

\* C9: a run passes the Manifest Gate only with --expected-sha256 or a
\* manifest given, the expected SHA-256 (if given) equal to the live one,
\* and the manifest (if given) naming the live SHA-256 and, read as an
\* integer, the live size; the mismatch errors end a run that opened nothing.
IdentityGate ==
  /\ (db.connected \/ pc \in {"policy", "dupgate", "open", "connect", "read"}) =>
       identity_established
  /\ (pc = "aborted" /\ err = "Missing preflight identity") =>
       (args.expected_sha256 = <<>> /\ ~args.has_manifest /\ ~db.connected)
  /\ (pc = "aborted" /\ err = "SHA-256 mismatch") =>
       (args.expected_sha256 # fs.tsv_sha256 /\ ~db.connected)
  /\ (pc = "aborted" /\ err = "Preflight SHA-256 mismatch") =>
       (fs.manifest.file_sha256 # JStr(fs.tsv_sha256) /\ ~db.connected)
  /\ (pc = "aborted" /\ err = "Preflight byte-size mismatch") =>
       (manifest_int(fs.manifest.file_bytes) # Some(fs.tsv_bytes) /\ ~db.connected)

\* both identities given, both matching, the database opened
IdentityGateWitness ==
  db.connected /\ args.expected_sha256 # <<>> /\ args.has_manifest

\* C10: no run opens the database with --dedupe memory and a key list both
\* in effect, the list named by --duplicate-codes or by the manifest.
NeverMemoryWithList == db.connected => ~(args.dedupe = "memory" /\ gate.list_loaded)

(***************************************************************************)
(* Dialect: the delimiter of the input, ingest_tsv.py 28-33 and 316-322,   *)
(* preflight.py 19-24 and 129-135.  A header line is a sequence whose      *)
(* items are a delimiter character or one whole column name.               *)
(***************************************************************************)
count_of(ch, line) == Cardinality({i \in 1..Len(line) : line[i] = ch})

\* a detection that gives a tie to the comma
detect_delimiter_ties(header_line) ==
  IF count_of(",", header_line) >= count_of("\t", header_line)
     /\ count_of(",", header_line) > 0
  THEN "," ELSE "\t"

\* _detect_delimiter of ingest_tsv.py
detect_delimiter(header_line) ==
  LET tabs == count_of("\t", header_line)
      commas == count_of(",", header_line)
  IN  IF commas > tabs /\ commas > 0 THEN "," ELSE "\t"

\* _detect_delimiter of preflight.py
preflight_detect_delimiter(header_line) ==
  LET tabs == count_of("\t", header_line)
      commas == count_of(",", header_line)
  IN  IF commas > tabs /\ commas > 0 THEN "," ELSE "\t"

\* a delimiter that is always the detected one
effective_delimiter_detected(delimiter_arg, detected) == detected

\* ingest_tsv.py 317-319: the delimiter the reader is given
effective_delimiter(delimiter_arg, detected) ==
  IF delimiter_arg = "\t" /\ detected # "\t" THEN detected ELSE delimiter_arg

\* preflight.py 130-132
preflight_effective_delimiter(delimiter_arg, detected) ==
  IF delimiter_arg = "\t" /\ detected # "\t" THEN detected ELSE delimiter_arg

\* csv.reader([header_line], delimiter): the cells between delimiters; a
\* line without characters has no cell
RECURSIVE split(_, _, _, _)
split(line, delimiter, cells, cell) ==
  IF line = <<>> THEN Append(cells, cell)
  ELSE IF Head(line) = delimiter
    THEN split(Tail(line), delimiter, Append(cells, cell), <<>>)
  ELSE split(Tail(line), delimiter, cells, Append(cell, Head(line)))

\* the column name of a cell: a cell of one item is that name
cell_name(cell) == IF Len(cell) = 1 THEN cell[1] ELSE "?"

\* headers = next(csv.reader([header_line], delimiter=delimiter))
read_headers(header_line, delimiter) ==
  IF header_line = <<>> THEN <<>>
  ELSE LET cells == split(header_line, delimiter, <<>>, <<>>)
       IN  [i \in 1..Len(cells) |-> cell_name(cells[i])]

(***************************************************************************)
(* CallSpec: one call of a pure function on every input below.             *)
(***************************************************************************)
MaxCodeLen == 3
MaxHeaderLen == 4

\* all sequences over alphabet of length n, and of length at most n
RECURSIVE seqs_of(_, _)
seqs_of(alphabet, n) ==
  IF n = 0 THEN {<<>>}
  ELSE {Append(s, c) : s \in seqs_of(alphabet, n - 1), c \in alphabet}

seqs_upto(alphabet, n) == UNION {seqs_of(alphabet, k) : k \in 0..n}

\* raw codes: digits, a letter, whitespace, superscript two
RawCodes == seqs_upto({"0", "1", "x", " ", "sup2"}, MaxCodeLen)

HeaderLines == seqs_upto({"code", ",", "\t", ";"}, MaxHeaderLen)

DelimiterArgs == {"\t", ",", ";"}

\* headers with the two energy fields, with fields that differ in case or
\* in "-" against "_", and with a repeated name
TransformHeaders ==
  { << "code", "energy-kj_100g", "energy_100g", "fat_100g" >>,
    << "code", "fat_100g", "Fat_100g", "energy_100g" >>,
    << "code", "energy-kj_100g", "energy_kj_100g", "fat_100g" >>,
    << "code", "fat_100g", "fat_100g", "energy_100g" >>,
    << "code", "energy_100g", "energy-kj_100g", "fat_100g" >> }

CellValues == { <<>>, <<"5">>, <<"7">>, <<"x">>, <<" ">> }

TransformRows == { << <<"1">>, a, b, c >> : a \in CellValues, b \in CellValues, c \in CellValues }

idle_importer == importer_at("idle", Args(LiveSha, FALSE, FALSE, "none", 1, 0, 0), LoadDisk)

(***************************************************************************)
(* COPY text encoding, lines 56-72 and 564-570.  "NUL" stands for U+0000,  *)
(* "BS" for the backspace and "VT" for the vertical tab.                   *)
(***************************************************************************)
\* longest cell value encoded
MaxCellLen == 3

\* str.replace(old, new) for a one-character old
RECURSIVE replace(_, _, _)
replace(s, old, new) ==
  IF s = <<>> THEN <<>>
  ELSE (IF Head(s) = old THEN new ELSE << Head(s) >>) \o replace(Tail(s), old, new)

\* an encoder that doubles the backslash after the other replacements
escape_copy_text_backslash_last(value) ==
  LET s1 == replace(value, "NUL", <<>>)
      s2 == replace(s1, "\t", << "\\", "t" >>)
      s3 == replace(s2, "\n", << "\\", "n" >>)
      s4 == replace(s3, "\r", << "\\", "r" >>)
      s5 == replace(s4, "BS", << "\\", "b" >>)
      s6 == replace(s5, "\f", << "\\", "f" >>)
      s7 == replace(s6, "VT", << "\\", "v" >>)
  IN  replace(s7, "\\", << "\\", "\\" >>)

\* _escape_copy_text(value): the chain of replacements in the code's order
escape_copy_text(value) ==
  LET s1 == replace(value, "NUL", <<>>)
      s2 == replace(s1, "\\", << "\\", "\\" >>)
      s3 == replace(s2, "\t", << "\\", "t" >>)
      s4 == replace(s3, "\n", << "\\", "n" >>)
      s5 == replace(s4, "\r", << "\\", "r" >>)
      s6 == replace(s5, "BS", << "\\", "b" >>)
      s7 == replace(s6, "\f", << "\\", "f" >>)
  IN  replace(s7, "VT", << "\\", "v" >>)

\* the NULL marker \N of PostgreSQL COPY
null_marker == << "\\", "N" >>

\* _copy_cell(value, null_if_empty)
copy_cell(value, null_if_empty) ==
  IF null_if_empty /\ value = <<>> THEN null_marker
  ELSE escape_copy_text(value)

RECURSIVE tab_join(_)
tab_join(cells) ==
  IF cells = <<>> THEN <<>>
  ELSE IF Len(cells) = 1 THEN cells[1]
  ELSE cells[1] \o << "\t" >> \o tab_join(Tail(cells))

\* product_line of lines 564-570: the 18 encoded cells joined by tabs, then
\* a newline
product_line(base) ==
  tab_join([i \in 1..Len(product_cols) |->
              copy_cell(base[product_cols[i]],
                        product_cols[i] \in product_numeric_cols)])
    \o << "\n" >>

\* values to encode
CopyChars == {"a", "N", "t", "\\", "\t", "\n", "\r", "NUL"}

CopyValues == seqs_upto(CopyChars, MaxCellLen)

\* rows whose cells hold separators, escapes, invalid numbers; short rows
LineHeaders == { << "code", "product_name", "last_modified_t", "fat_100g" >> }

LineCells ==
  { <<>>, <<"5">>, <<"x">>, <<" ">>, <<"a", "\t", "b">>, <<"\\", "N">>,
    <<"NUL">>, <<"5", "\n">> }

LineRows ==
  { << <<"1">>, a, b, c >> : a \in LineCells, b \in LineCells, c \in LineCells }
    \cup { << <<"1">>, a, b >> : a \in LineCells, b \in LineCells }
    \cup { << <<"1">>, a >> : a \in LineCells }
    \cup { << <<"1">> >>, << <<"1", "\t", "2">> >> }

(***************************************************************************)
(* Column identifiers of the USDA importer, import_usda_fdc.py lines 71-96. *)
(* "BOM" stands for U+FEFF.                                                *)
(***************************************************************************)
\* most raw headers of one CSV file
MaxHeaders == 3

\* [a-z0-9] over the model's characters
is_alnum(ch) == ch \in AsciiDigits \cup {"a", "b", "c", "o", "l"}

\* the character classes of the two patterns: [^a-z0-9] and _
in_class(class, ch) == IF class = "non_alnum" THEN ~is_alnum(ch) ELSE ch = "_"

\* re.sub(class+, "_", s): every run of characters of the class becomes "_"
RECURSIVE sub_runs(_, _)
sub_runs(s, class) ==
  IF s = <<>> THEN <<>>
  ELSE IF in_class(class, Head(s))
    THEN IF Len(s) >= 2 /\ in_class(class, s[2]) THEN sub_runs(Tail(s), class)
         ELSE << "_" >> \o sub_runs(Tail(s), class)
  ELSE << Head(s) >> \o sub_runs(Tail(s), class)

RECURSIVE strip_underscores(_)
strip_underscores(s) ==
  IF s # <<>> /\ Head(s) = "_" THEN strip_underscores(Tail(s))
  ELSE IF s # <<>> /\ s[Len(s)] = "_"
    THEN strip_underscores(SubSeq(s, 1, Len(s) - 1))
  ELSE s

\* _normalize_identifier(raw), lines 71-81
normalize_identifier(raw) ==
  LET v1 == lower(strip(raw))
      v2 == replace(v1, "BOM", <<>>)
      v3 == replace(v2, ".", << "_" >>)
      v4 == sub_runs(v3, "non_alnum")
      v5 == strip_underscores(sub_runs(v4, "underscore"))
      v6 == IF v5 = <<>> THEN << "c", "o", "l" >> ELSE v5
  IN  IF IsDigitChar(v6[1]) THEN << "c", "_" >> \o v6 ELSE v6

digit_char(d) ==
  CASE d = 0 -> "0" [] d = 1 -> "1" [] d = 2 -> "2" [] d = 3 -> "3"
    [] d = 4 -> "4" [] d = 5 -> "5" [] d = 6 -> "6" [] d = 7 -> "7"
    [] d = 8 -> "8" [] d = 9 -> "9"

\* str(n) for n >= 0
RECURSIVE decimal(_)
decimal(n) ==
  IF n < 10 THEN << digit_char(n) >>
  ELSE Append(decimal(n \div 10), digit_char(n % 10))

\* f"{base}_{n+1}"
suffixed(base, k) == base \o << "_" >> \o decimal(k)

\* the loop of _unique_identifiers, lines 86-94; used is the dict
RECURSIVE unique_identifiers_from(_, _, _)
unique_identifiers_from(raw_headers, used, out) ==
  IF raw_headers = <<>> THEN out
  ELSE
    LET base == normalize_identifier(Head(raw_headers))
        n == IF base \in DOMAIN used THEN used[base] ELSE 0
    IN  IF n = 0
          THEN unique_identifiers_from(Tail(raw_headers), (base :> 1) @@ used,
                                       Append(out, base))
        ELSE unique_identifiers_from(Tail(raw_headers),
                                     [used EXCEPT ![base] = n + 1],
                                     Append(out, suffixed(base, n + 1)))

\* _unique_identifiers(raw_headers), lines 84-96
unique_identifiers(raw_headers) ==
  unique_identifiers_from(raw_headers, [b \in {} |-> 0], <<>>)

\* raw headers: a name, its spellings, a name that ends in _2, no name
RawHeaders ==
  { <<"a">>, <<" ", "A">>, <<"a", "_", "2">>, <<"a", ".", "2">>,
    <<"a", "-", "-", "2", "_">>, <<"2">>, <<>>, <<"b">> }

(***************************************************************************)
(* Backoff of copy_with_retry, lines 436-448.  Times are in milliseconds.  *)
(***************************************************************************)
MaxFailures == 6

\* the cap 10.0 of line 437 and the jitter range 0.05 of line 438
cap_ms == 10000
jitter_ms == 50

min_of(a, b) == IF a < b THEN a ELSE b

\* a backoff that grows by the base instead of doubling
sleep_ms_linear(retry_sleep_ms, attempt, jitter) ==
  min_of(retry_sleep_ms * (attempt + 1), cap_ms) + jitter

\* lines 436-439: sleep_s of the handler of failed attempt `attempt`
sleep_ms(retry_sleep_ms, attempt, jitter) ==
  min_of(retry_sleep_ms * (2 ^ attempt), cap_ms) + jitter

\* lines 440-447: the "retry" event of failed attempt `attempt`
retry_event(retry_sleep_ms, attempt, jitter) ==
  [attempt |-> attempt + 1, sleep_ms |-> sleep_ms(retry_sleep_ms, attempt, jitter)]

\* --retry-sleep-s values: negative, zero, one millisecond, the default,
\* values whose doubling meets the cap, the cap and beyond
BackoffBases == {0 - 1000, 0, 1, 500, 3000, 5000, 10000, 20000}

\* random.random() * 0.05 of each sleep: least, greatest, or alternating
JitterPatterns == {"low", "high", "mixed"}

jitter_of(pattern, attempt) ==
  IF pattern = "low" THEN 0
  ELSE IF pattern = "high" THEN jitter_ms - 1
  ELSE IF attempt % 2 = 0 THEN jitter_ms - 1 ELSE 0

InitCall ==
  /\ idle_importer
  /\ pf = NoPreflight
  /\ us = NoUsda
  /\ \/ \E raw \in RawCodes :
          fn = [op |-> "normalize_barcode", arg |-> raw, done |-> FALSE, out |-> <<>>]
     \/ \E h \in TransformHeaders, row \in TransformRows,
           mode \in {"minimal", "all"}, salt \in BOOLEAN :
          fn = [op |-> "transform",
                arg |-> [headers |-> h, row |-> row, mode |-> mode, include_salt |-> salt],
                done |-> FALSE, out |-> <<>>]
     \/ \E line \in HeaderLines, d \in DelimiterArgs :
          fn = [op |-> "dialect", arg |-> [header_line |-> line, delimiter |-> d],
                done |-> FALSE, out |-> <<>>]
     \/ \E b \in BackoffBases, n \in 0..MaxFailures, j \in JitterPatterns :
          fn = [op |-> "backoff",
                arg |-> [retry_sleep_ms |-> b, failures |-> n, jitter |-> j],
                done |-> FALSE, out |-> <<>>]
     \/ \E raw_headers \in seqs_upto(RawHeaders, MaxHeaders) :
          fn = [op |-> "unique_identifiers", arg |-> raw_headers,
                done |-> FALSE, out |-> <<>>]
     \/ \E v \in CopyValues, n \in BOOLEAN :
          fn = [op |-> "copy_cell", arg |-> [value |-> v, null_if_empty |-> n],
                done |-> FALSE, out |-> <<>>]
     \/ \E h \in LineHeaders, row \in LineRows, mode \in {"minimal", "all"} :
          fn = [op |-> "product_line",
                arg |-> [headers |-> h, row |-> row, mode |-> mode, include_salt |-> FALSE],
                done |-> FALSE, out |-> <<>>]

CallNormalizeBarcode ==
  /\ fn.op = "normalize_barcode" /\ ~fn.done
  /\ fn' = [fn EXCEPT !.out = normalize_barcode(fn.arg), !.done = TRUE]
  /\ UNCHANGED << pc, err, args, fs, gate, ld, fl, db, log, hist, pf, us >>

CallTransform ==
  /\ fn.op = "transform" /\ ~fn.done
  /\ fn' = [fn EXCEPT !.out = transform(fn.arg.headers, fn.arg.row, fn.arg.mode,
                                        fn.arg.include_salt),
                      !.done = TRUE]
  /\ UNCHANGED << pc, err, args, fs, gate, ld, fl, db, log, hist, pf, us >>

\* the dialect both programs settle on for a header line and --delimiter
CallDialect ==
  /\ fn.op = "dialect" /\ ~fn.done
  /\ fn' = [fn EXCEPT
        !.out = [detected |-> detect_delimiter(fn.arg.header_line),
                 delimiter |-> effective_delimiter(
                     fn.arg.delimiter, detect_delimiter(fn.arg.header_line)),
                 preflight_detected |-> preflight_detect_delimiter(fn.arg.header_line),
                 preflight_delimiter |-> preflight_effective_delimiter(
                     fn.arg.delimiter, preflight_detect_delimiter(fn.arg.header_line))],
        !.done = TRUE]
  /\ UNCHANGED << pc, err, args, fs, gate, ld, fl, db, log, hist, pf, us >>

\* the retry events of a chunk whose attempts 0 .. failures-1 met a
\* serialization failure with a retry left
CallBackoff ==
  /\ fn.op = "backoff" /\ ~fn.done
  /\ fn' = [fn EXCEPT
        !.out = [i \in 1..fn.arg.failures |->
                   retry_event(fn.arg.retry_sleep_ms, i - 1,
                               jitter_of(fn.arg.jitter, i - 1))],
        !.done = TRUE]
  /\ UNCHANGED << pc, err, args, fs, gate, ld, fl, db, log, hist, pf, us >>

CallCopyCell ==
  /\ fn.op = "copy_cell" /\ ~fn.done
  /\ fn' = [fn EXCEPT !.out = copy_cell(fn.arg.value, fn.arg.null_if_empty),
                      !.done = TRUE]
  /\ UNCHANGED << pc, err, args, fs, gate, ld, fl, db, log, hist, pf, us >>

\* the product record of one row and its COPY line, lines 488-570
CallProductLine ==
  /\ fn.op = "product_line" /\ ~fn.done
  /\ \E t \in {transform(fn.arg.headers, fn.arg.row, fn.arg.mode,
                         fn.arg.include_salt)} :
       fn' = [fn EXCEPT !.out = [t |-> t, line |-> product_line(t.base)],
                        !.done = TRUE]
  /\ UNCHANGED << pc, err, args, fs, gate, ld, fl, db, log, hist, pf, us >>

CallUniqueIdentifiers ==
  /\ fn.op = "unique_identifiers" /\ ~fn.done
  /\ fn' = [fn EXCEPT !.out = unique_identifiers(fn.arg), !.done = TRUE]
  /\ UNCHANGED << pc, err, args, fs, gate, ld, fl, db, log, hist, pf, us >>

CallNext ==
  \/ CallNormalizeBarcode
  \/ CallTransform
  \/ CallDialect
  \/ CallBackoff
  \/ CallCopyCell
  \/ CallProductLine
  \/ CallUniqueIdentifiers

CallSpec == InitCall /\ [][CallNext]_vars

(***************************************************************************)
(* Properties of the pure functions.                                       *)
(***************************************************************************)
is_decimal(ch) == ch \in AsciiDigits

\* C14: for every raw code the normalized key holds only the digits 0-9, is
\* the digits of raw in their order, has its length in the digits field and
\* is empty exactly when raw holds no digit.
BarcodeDigitsOnly ==
  (fn.op = "normalize_barcode" /\ fn.done) =>
    /\ \A i \in 1..Len(fn.out.normalized) : fn.out.normalized[i] \in AsciiDigits
    /\ fn.out.normalized = SelectSeq(fn.arg, is_decimal)
    /\ fn.out.digits = Len(fn.out.normalized)
    /\ fn.out.normalized = <<>> <=> \A i \in 1..Len(fn.arg) : fn.arg[i] \notin AsciiDigits

\* the same for raw codes of ASCII characters
BarcodeDigitsOnlyAscii ==
  (fn.op = "normalize_barcode" /\ \A i \in 1..Len(fn.arg) : fn.arg[i] # "sup2")
    => BarcodeDigitsOnly

\* positions of the observations of a nutrient key
lines_of_key(lines, key) == {i \in 1..Len(lines) : lines[i].nutrient_key = key}

\* C15: in minimal mode a row yields at most one energy_kj observation; when
\* energy-kj_100g and energy_100g both hold numbers there is exactly one, it
\* carries the value of energy-kj_100g and names that field as its source.
OneEnergyKj ==
  (fn.op = "transform" /\ fn.done /\ fn.arg.mode = "minimal") =>
    LET kj == float_or_empty(get(fn.arg.headers, fn.arg.row, "energy-kj_100g"))
        en == float_or_empty(get(fn.arg.headers, fn.arg.row, "energy_100g"))
        at == lines_of_key(fn.out.nutrient_lines, "energy_kj")
    IN  /\ Cardinality(at) <= 1
        /\ (kj # <<>> /\ en # <<>>) =>
             /\ Cardinality(at) = 1
             /\ \A i \in at :
                  /\ fn.out.nutrient_lines[i].value = kj
                  /\ fn.out.nutrient_lines[i].source_field = "energy-kj_100g"

\* both energy fields hold numbers, different ones
OneEnergyKjWitness ==
  /\ fn.op = "transform" /\ fn.done /\ fn.arg.mode = "minimal"
  /\ get(fn.arg.headers, fn.arg.row, "energy-kj_100g") = <<"5">>
  /\ get(fn.arg.headers, fn.arg.row, "energy_100g") = <<"7">>

\* C16: in either mode no two observations of a row share a nutrient key.
NutrientKeysDistinct ==
  (fn.op = "transform" /\ fn.done) =>
    \A i, j \in 1..Len(fn.out.nutrient_lines) :
      i # j => fn.out.nutrient_lines[i].nutrient_key # fn.out.nutrient_lines[j].nutrient_key

\* the same in minimal mode alone
NutrientKeysDistinctMinimal ==
  (fn.op = "transform" /\ fn.arg.mode = "minimal") => NutrientKeysDistinct

\* C17: the detected delimiter is the comma exactly when the header line has
\* more commas than tabs and a comma at all, the tab otherwise; preflight
\* and the importer detect the same.
DetectsComma ==
  (fn.op = "dialect" /\ fn.done) =>
    LET commas == count_of(",", fn.arg.header_line)
        tabs == count_of("\t", fn.arg.header_line)
    IN  /\ fn.out.detected = "," <=> (commas > tabs /\ commas > 0)
        /\ fn.out.detected # "," => fn.out.detected = "\t"
        /\ fn.out.preflight_detected = fn.out.detected

\* as many commas as tabs, and one of each at least
DetectsCommaWitness ==
  /\ fn.op = "dialect" /\ fn.done
  /\ count_of(",", fn.arg.header_line) = count_of("\t", fn.arg.header_line)
  /\ count_of(",", fn.arg.header_line) > 0
  /\ fn.out.detected = "\t"

\* C18: the delimiter in effect is the detected one when --delimiter is the
\* tab and the detection is not; it is --delimiter otherwise: a --delimiter
\* other than the tab is kept, a tab given in words is overridden like the
\* default; the same in preflight.
EffectiveDelimiter ==
  (fn.op = "dialect" /\ fn.done) =>
    /\ fn.arg.delimiter # "\t" => fn.out.delimiter = fn.arg.delimiter
    /\ (fn.arg.delimiter = "\t" /\ fn.out.detected # "\t") =>
         fn.out.delimiter = fn.out.detected
    /\ (fn.arg.delimiter = "\t" /\ fn.out.detected = "\t") => fn.out.delimiter = "\t"
    /\ fn.out.preflight_delimiter = fn.out.delimiter

\* --delimiter ";" kept although a comma is detected
EffectiveDelimiterWitness ==
  /\ fn.op = "dialect" /\ fn.done
  /\ fn.arg.delimiter = ";" /\ fn.out.detected = "," /\ fn.out.delimiter = ";"

(***************************************************************************)
(* The gate and the database.                                              *)
(***************************************************************************)
\* the database as it is before the importer connects
db_untouched ==
  /\ ~db.connected
  /\ db.product_raw = <<>> /\ db.nutrient_100g = <<>>
  /\ db.import_metadata = 0 /\ db.tx = <<>>

\* the run is in the gate or was stopped by one of its checks
in_gate ==
  \/ pc \in {"start", "manifest", "policy", "dupgate", "open", "connect"}
  \/ pc = "aborted" /\ err # "database error"

\* C11: a run that a configuration, identity, manifest-field, flag-conflict
\* or duplicate-gating check stops has made no database operation: no
\* connection, DDL, TRUNCATE, COPY or metadata insert; none is made while
\* the gate is still running.
NoDatabaseBeforeGate == in_gate => db_untouched

\* the flag conflict stopped the run after identity and manifest passed
NoDatabaseBeforeGateWitness ==
  /\ pc = "aborted"
  /\ err = "Use either --dedupe memory or --duplicate-codes, not both."
  /\ args.has_manifest
  /\ db_untouched

(***************************************************************************)
(* Preflight Scanner, preflight.py main() 96-250.  pf is the state of one  *)
(* run: its arguments, the input file, the two scratch files, the sidecar, *)
(* the scan counters and the manifest.                                     *)
(***************************************************************************)
MaxPreflightRows == 4

importer_vars == << pc, err, args, fs, gate, ld, fl, db, log, hist >>

\* byte order of the characters of a key (LC_ALL=C): the digits, then the
\* bytes of a non-ASCII digit
byte_rank(ch) == IF ch \in AsciiDigits THEN DigitValue(ch) ELSE 10

RECURSIVE bytes_less(_, _)
bytes_less(a, b) ==
  IF b = <<>> THEN FALSE
  ELSE IF a = <<>> THEN TRUE
  ELSE IF byte_rank(Head(a)) # byte_rank(Head(b))
    THEN byte_rank(Head(a)) < byte_rank(Head(b))
  ELSE bytes_less(Tail(a), Tail(b))

RECURSIVE insert_line(_, _)
insert_line(sorted, line) ==
  IF sorted = <<>> THEN << line >>
  ELSE IF bytes_less(line, Head(sorted)) THEN << line >> \o sorted
  ELSE << Head(sorted) >> \o insert_line(Tail(sorted), line)

\* sort -o sorted unsorted under LC_ALL=C, lines 165-173
RECURSIVE sort_lines(_)
sort_lines(lines) ==
  IF lines = <<>> THEN <<>>
  ELSE insert_line(sort_lines(Tail(lines)), Head(lines))

\* str(path): the components joined by "/"
RECURSIVE join_parts(_)
join_parts(parts) ==
  IF parts = <<>> THEN <<>>
  ELSE IF Len(parts) = 1 THEN parts
  ELSE << Head(parts), "/" >> \o join_parts(Tail(parts))

path_str(p) == (IF p.abs THEN << "/" >> ELSE <<>>) \o join_parts(p.parts)

\* a cleanup that leaves the sorted scratch file behind
finally_cleanup_unsorted_only(p) ==
  [p EXCEPT
     !.unsorted_exists = IF p.unsorted_path_set /\ p.unsorted_exists THEN FALSE
                         ELSE p.unsorted_exists,
     !.duplicate_fh = IF p.duplicate_fh # "none" THEN "closed" ELSE "none",
     !.log_closed = TRUE]

\* the finally block, lines 243-250
finally_cleanup(p) ==
  [p EXCEPT
     !.unsorted_exists = IF p.unsorted_path_set /\ p.unsorted_exists THEN FALSE
                         ELSE p.unsorted_exists,
     !.sorted_exists = IF p.sorted_path_set /\ p.sorted_exists THEN FALSE
                       ELSE p.sorted_exists,
     !.duplicate_fh = IF p.duplicate_fh # "none" THEN "closed" ELSE "none",
     !.log_closed = TRUE]

\* main() is left, by return 0 ("done") or by an exception ("failed")
preflight_exit(p, how, e) == finally_cleanup([p EXCEPT !.pc = how, !.err = e])

\* the state after _parse_args and Logger(...), lines 97-101
preflight_start(cfg, rows) ==
  [pc |-> "start", err |-> "", args |-> cfg.args,
   input |-> [exists |-> cfg.exists, empty |-> cfg.empty,
              header_line |-> cfg.header_line, rows |-> rows],
   detected |-> "", delimiter |-> "", headers |-> <<>>,
   pos |-> 0, codes_total |-> 0, skipped_no_code |-> 0,
   unsorted_path_set |-> FALSE, unsorted_exists |-> FALSE, unsorted |-> <<>>,
   sorted_path_set |-> FALSE, sorted_exists |-> FALSE, sorted |-> <<>>,
   scan_pos |-> 0, duplicate_values |-> 0, duplicate_occurrences |-> 0,
   duplicate_samples |-> <<>>, duplicate_codes_count |-> 0,
   prev |-> None, prev_count |-> 0,
   duplicate_fh |-> "none", sidecar_exists |-> FALSE, sidecar |-> <<>>,
   manifest_written |-> FALSE, manifest |-> <<>>, log_closed |-> FALSE,
   sort_outcome |-> ""]

\* lines 103-153: the input is opened, the dialect settled, "code" required,
\* the unsorted scratch file created
PreflightOpen ==
  /\ pf.pc = "start"
  /\ UNCHANGED << importer_vars, fn, us >>
  /\ pf' =
       IF ~pf.input.exists THEN preflight_exit(pf, "failed", "Missing input")
       ELSE IF pf.input.empty THEN preflight_exit(pf, "failed", "Empty file")
       ELSE LET detected == preflight_detect_delimiter(pf.input.header_line)
                delimiter == preflight_effective_delimiter(pf.args.delimiter, detected)
                headers == read_headers(pf.input.header_line, delimiter)
            IN  IF header_to_index(headers, "code") = 0
                  THEN preflight_exit(pf, "failed",
                                      "Input is missing required column: code")
                ELSE [pf EXCEPT !.pc = "read", !.detected = detected,
                                !.delimiter = delimiter, !.headers = headers,
                                !.unsorted_path_set = TRUE,
                                !.unsorted_exists = TRUE]

\* a row loop that writes a line for a row without a key as well
read_row_writes_all(p) ==
  LET row == p.input.rows[p.pos + 1]
      raw_code == strip(get(p.headers, row, "code"))
      code_norm == normalize_barcode(raw_code).normalized
  IN  IF code_norm = <<>>
        THEN [p EXCEPT !.pos = @ + 1, !.skipped_no_code = @ + 1,
                       !.unsorted = Append(@, code_norm)]
      ELSE [p EXCEPT !.pos = @ + 1, !.unsorted = Append(@, code_norm),
                     !.codes_total = @ + 1]

\* lines 155-162: one row of the input
read_row(p) ==
  LET row == p.input.rows[p.pos + 1]
      raw_code == strip(get(p.headers, row, "code"))
      code_norm == normalize_barcode(raw_code).normalized
  IN  IF code_norm = <<>>
        THEN [p EXCEPT !.pos = @ + 1, !.skipped_no_code = @ + 1]
      ELSE [p EXCEPT !.pos = @ + 1, !.unsorted = Append(@, code_norm),
                     !.codes_total = @ + 1]

\* a row is read, or reading raises (csv.Error, UnicodeDecodeError, OSError)
PreflightReadRow ==
  /\ pf.pc = "read" /\ pf.pos < Len(pf.input.rows)
  /\ UNCHANGED << importer_vars, fn, us >>
  /\ \/ pf' = read_row(pf)
     \/ pf' = preflight_exit(pf, "failed", "error while reading")

\* a handler that reports every failure of the sort with one message
sort_error_one_message(outcome) == "External sort failed"

\* lines 174-177: the message of SystemExit for a sort that could not be
\* started ("missing") and for one that exited with a nonzero code
sort_error(outcome) ==
  IF outcome = "missing" THEN "Missing required external command: sort"
  ELSE "External sort failed with exit code " \o outcome

\* the exit codes of a failed sort
SortExitCodes == {"1", "2"}

\* lines 164-188: the external sort, then the sidecar is opened; sort may be
\* missing or exit nonzero (with or without an output file), the sidecar
\* may not open
PreflightSort ==
  /\ pf.pc = "read" /\ pf.pos = Len(pf.input.rows)
  /\ UNCHANGED << importer_vars, fn, us >>
  /\ \/ pf' = [pf EXCEPT !.pc = "scan", !.sorted_path_set = TRUE,
                         !.sorted_exists = TRUE,
                         !.sort_outcome = "0",
                         !.sorted = sort_lines(pf.unsorted),
                         !.duplicate_fh = IF pf.args.duplicate_codes_out # <<>>
                                          THEN "open" ELSE "none",
                         !.sidecar_exists = pf.args.duplicate_codes_out # <<>>]
     \/ pf' = preflight_exit([pf EXCEPT !.sorted_path_set = TRUE,
                                        !.sort_outcome = "missing"],
                             "failed", sort_error("missing"))
     \/ \E left \in BOOLEAN, code \in SortExitCodes :
          pf' = preflight_exit([pf EXCEPT !.sorted_path_set = TRUE,
                                          !.sorted_exists = left,
                                          !.sort_outcome = code],
                               "failed", sort_error(code))
     \/ /\ pf.args.duplicate_codes_out # <<>>
        /\ pf' = preflight_exit([pf EXCEPT !.sorted_path_set = TRUE,
                                           !.sorted_exists = TRUE,
                                           !.sort_outcome = "0"],
                                "failed", "cannot open the sidecar")

\* a second occurrence that counts a new duplicate value although the key
\* was counted before
counts_value_again(prev_count) == prev_count >= 2

\* line 196: the occurrence that makes a key a duplicate value
counts_value(prev_count) == prev_count = 2

\* a sample list that takes one key more than the cap
takes_sample_to_cap(samples, cap) == Len(samples) <= cap

\* line 201: the manifest sample still has room
takes_sample(samples, cap) == Len(samples) < cap

\* lines 192-205: one line of the sorted file
scan_line(p) ==
  LET code == p.sorted[p.scan_pos + 1]
  IN  IF p.prev.tag = "some" /\ p.prev.val = code
        THEN IF counts_value(p.prev_count + 1)
               THEN [p EXCEPT
                      !.scan_pos = @ + 1,
                      !.duplicate_occurrences = @ + 1,
                      !.prev_count = @ + 1,
                      !.duplicate_values = @ + 1,
                      !.sidecar = IF p.duplicate_fh # "none" THEN Append(@, code) ELSE @,
                      !.duplicate_codes_count = IF p.duplicate_fh # "none" THEN @ + 1 ELSE @,
                      !.duplicate_samples =
                         IF takes_sample(@, p.args.duplicate_samples)
                           THEN Append(@, code) ELSE @]
             ELSE [p EXCEPT !.scan_pos = @ + 1, !.duplicate_occurrences = @ + 1,
                            !.prev_count = @ + 1]
      ELSE [p EXCEPT !.scan_pos = @ + 1, !.prev = Some(code), !.prev_count = 1]

\* a line is scanned, or the scan raises
PreflightScanLine ==
  /\ pf.pc = "scan" /\ pf.scan_pos < Len(pf.sorted)
  /\ UNCHANGED << importer_vars, fn, us >>
  /\ \/ pf' = scan_line(pf)
     \/ pf' = preflight_exit(pf, "failed", "error during scan")

\* a manifest whose code_unique subtracts the duplicate values
unique_codes_less_values(codes_total, duplicate_values, duplicate_occurrences) ==
  codes_total - duplicate_values

\* line 207
unique_codes(codes_total, duplicate_values, duplicate_occurrences) ==
  codes_total - duplicate_occurrences

\* lines 211-231: the manifest
payload(p) ==
  [file_sha256 |-> JStr(LiveSha), file_bytes |-> JInt(LiveBytes),
   delimiter |-> p.delimiter, detected_delimiter |-> p.detected,
   code_total |-> JInt(p.codes_total),
   code_unique |-> JInt(unique_codes(p.codes_total, p.duplicate_values,
                                     p.duplicate_occurrences)),
   duplicate_values |-> JInt(p.duplicate_values),
   duplicate_occurrences |-> JInt(p.duplicate_occurrences),
   duplicates_found |-> JBool(p.duplicate_values > 0),
   duplicate_samples |-> p.duplicate_samples,
   duplicate_codes_count |-> JInt(p.duplicate_codes_count),
   duplicate_codes_path |-> IF p.args.duplicate_codes_out # <<>>
                            THEN JStr(path_str(Path(p.args.duplicate_codes_out)))
                            ELSE JNull,
   skipped_no_code |-> JInt(p.skipped_no_code)]

\* lines 207-242: the manifest is written and main returns 0, or the write
\* raises
PreflightWriteManifest ==
  /\ pf.pc = "scan" /\ pf.scan_pos = Len(pf.sorted)
  /\ UNCHANGED << importer_vars, fn, us >>
  /\ \/ pf' = preflight_exit([pf EXCEPT !.manifest_written = TRUE,
                                        !.manifest = payload(pf)], "done", "")
     \/ pf' = preflight_exit(pf, "failed", "cannot write the manifest")

PreflightNext ==
  \/ PreflightOpen
  \/ PreflightReadRow
  \/ PreflightSort
  \/ PreflightScanLine
  \/ PreflightWriteManifest

\* the code cells of the input rows: keys 1, 12 and 2, and no key
PreflightCells == { <<"1">>, <<"1", "x", "2">>, <<" ", "2">>, <<"x">> }

PreflightRows ==
  { [i \in 1..Len(cells) |-> << cells[i] >>] :
      cells \in seqs_upto(PreflightCells, MaxPreflightRows) }

PreflightArgs(manifest_out, duplicate_codes_out, delimiter, duplicate_samples) ==
  [manifest_out |-> manifest_out, duplicate_codes_out |-> duplicate_codes_out,
   delimiter |-> delimiter, duplicate_samples |-> duplicate_samples]

PreflightConfig(a, exists, empty, header_line) ==
  [args |-> a, exists |-> exists, empty |-> empty, header_line |-> header_line]

\* the sidecar absent, relative or absolute; the manifest in a directory or
\* in the working directory; inputs missing, empty and without "code"
PreflightConfigs ==
  { PreflightConfig(PreflightArgs(m, d, "\t", 1), TRUE, FALSE, <<"code">>) :
      m \in { <<"out", "/", "m">>, <<"m">> },
      d \in { <<>>, <<"out", "/", "d">>, <<"d">>, <<"/", "w", "out", "d">> } }
  \cup
  { PreflightConfig(PreflightArgs(<<"m">>, <<"d">>, "\t", 0), TRUE, FALSE, <<"code">>),
    PreflightConfig(PreflightArgs(<<"m">>, <<"d">>, "\t", 1), FALSE, FALSE, <<"code">>),
    PreflightConfig(PreflightArgs(<<"m">>, <<"d">>, "\t", 1), TRUE, TRUE, <<>>),
    PreflightConfig(PreflightArgs(<<"m">>, <<"d">>, "\t", 1), TRUE, FALSE, <<"name">>),
    PreflightConfig(PreflightArgs(<<"m">>, <<"d">>, "\t", 1), TRUE, FALSE,
                    <<"code", ",", "name">>),
    PreflightConfig(PreflightArgs(<<"m">>, <<"d">>, ";", 1), TRUE, FALSE,
                    <<"code", ",", "name">>) }

InitPreflight ==
  /\ idle_importer
  /\ fn = NoCall
  /\ us = NoUsda
  /\ \E cfg \in PreflightConfigs, rows \in PreflightRows :
       pf = preflight_start(cfg, rows)

PreflightSpec == InitPreflight /\ [][PreflightNext]_vars

(***************************************************************************)
(* Properties of the preflight counters.                                   *)
(***************************************************************************)
keys_of(lines) == {lines[i] : i \in 1..Len(lines)}

times_in(lines, k) == Cardinality({i \in 1..Len(lines) : lines[i] = k})

\* the lines of the sorted file the scan has processed
scanned == SubSeq(pf.sorted, 1, pf.scan_pos)

\* C12: the manifest has code_unique + duplicate_occurrences = code_total
\* and duplicates_found exactly when duplicate_values > 0; after every line
\* of the scan the counters satisfy the same: the lines scanned less the
\* duplicate occurrences are the distinct keys scanned, duplicate_values is
\* at most duplicate_occurrences, and one is positive exactly when the other
\* is.
ManifestCountsAddUp ==
  /\ pf.pc # "idle" =>
       /\ pf.scan_pos - pf.duplicate_occurrences = Cardinality(keys_of(scanned))
       /\ pf.duplicate_values <= pf.duplicate_occurrences
       /\ pf.duplicate_values > 0 <=> pf.duplicate_occurrences > 0
  /\ (pf.pc # "idle" /\ pf.manifest_written) =>
       /\ pf.manifest.code_unique.n + pf.manifest.duplicate_occurrences.n
            = pf.manifest.code_total.n
       /\ pf.manifest.duplicates_found.b <=> pf.manifest.duplicate_values.n > 0
       /\ pf.manifest.code_total.n = Len(pf.unsorted)

\* a manifest for a key read twice and another key
ManifestCountsAddUpWitness ==
  /\ pf.pc = "done" /\ pf.manifest_written
  /\ pf.manifest.code_total.n = 3
  /\ pf.manifest.code_unique.n = 2
  /\ pf.manifest.duplicates_found.b

\* the scan has reached the end of the sorted file
scan_complete ==
  /\ pf.pc \in {"scan", "done", "failed"}
  /\ pf.sorted_path_set /\ pf.sort_outcome = "0"
  /\ pf.err # "cannot open the sidecar"
  /\ pf.scan_pos = Len(pf.unsorted)

\* C13: after the scan, for the keys written to the scratch file,
\* duplicate_values is the number of distinct keys that occur twice or more,
\* duplicate_occurrences the sum over the keys of (occurrences - 1), and
\* code_unique the number of distinct keys.
CountersCountDuplicates ==
  (pf.pc # "idle" /\ scan_complete) =>
    /\ pf.duplicate_values
         = Cardinality({k \in keys_of(pf.unsorted) : times_in(pf.unsorted, k) >= 2})
    /\ pf.duplicate_occurrences
         = Len(pf.unsorted) - Cardinality(keys_of(pf.unsorted))
    /\ unique_codes(pf.codes_total, pf.duplicate_values, pf.duplicate_occurrences)
         = Cardinality(keys_of(pf.unsorted))
    /\ pf.manifest_written =>
         /\ pf.manifest.duplicate_values.n = pf.duplicate_values
         /\ pf.manifest.duplicate_occurrences.n = pf.duplicate_occurrences
         /\ pf.manifest.code_unique.n = Cardinality(keys_of(pf.unsorted))

\* one key read three times
CountersCountDuplicatesWitness ==
  /\ pf.pc = "done" /\ pf.manifest_written
  /\ Len(pf.unsorted) = 3
  /\ pf.duplicate_values = 1 /\ pf.duplicate_occurrences = 2

(***************************************************************************)
(* ExitSpec: runs of preflight and runs of the importer, to their exits.   *)
(***************************************************************************)
InitExit == InitPreflight \/ Init

ExitNext == PreflightNext \/ Next

ExitSpec == InitExit /\ [][ExitNext]_vars

\* C20: when preflight has left main, by return or by any error, neither
\* scratch file exists, the sidecar handle is not open and the log file is
\* closed; when the importer has left main its log file is closed.
CleanOnExit ==
  /\ pf.pc \in {"done", "failed"} =>
       /\ ~pf.unsorted_exists /\ ~pf.sorted_exists
       /\ pf.duplicate_fh # "open"
       /\ pf.log_closed
  /\ pc \in {"done", "aborted"} => log.closed

\* the scan raised with both scratch files on disk and the sidecar open
CleanOnExitWitness ==
  /\ pf.pc = "failed" /\ pf.err = "error during scan"
  /\ pf.unsorted_path_set /\ pf.sorted_path_set
  /\ pf.duplicate_fh = "closed"
  /\ pf.scan_pos > 0

(***************************************************************************)
(* PipelineSpec: preflight, then the importer's gate on the manifest and   *)
(* the sidecar that preflight left on disk.                                *)
(***************************************************************************)
\* the files preflight left: the sidecar under the name it was opened by
files_written(p) ==
  IF p.sidecar_exists
    THEN [f \in {opened(Path(p.args.duplicate_codes_out))} |-> p.sidecar]
  ELSE [f \in {} |-> <<>>]

\* the importer is started with --preflight-manifest naming the manifest
\* that preflight wrote, in the same working directory
Handoff ==
  /\ pc = "idle" /\ pf.pc = "done"
  /\ \E d \in {"none", "memory"} :
       args' = [Args(<<>>, TRUE, FALSE, d, 1, 0, 0)
                  EXCEPT !.preflight_manifest = pf.args.manifest_out]
  /\ fs' = Disk(TRUE, pf.headers, "ok", pf.manifest, files_written(pf))
  /\ pc' = "start"
  /\ UNCHANGED << err, gate, ld, fl, db, log, hist, pf, fn, us >>

PipelineNext == PreflightNext \/ Handoff \/ GateNext

PipelineSpec == InitPreflight /\ [][PipelineNext]_vars

\* the manifest names a sidecar and the importer has read the manifest
sidecar_named ==
  /\ pc \notin {"idle", "start", "manifest"}
  /\ pf.pc = "done" /\ pf.args.duplicate_codes_out # <<>>
  /\ gate.manifest_duplicate_codes_path # <<>>

\* C19: for every --manifest-out and --duplicate-codes-out, the path in the
\* manifest, resolved as the importer resolves it, is the file preflight
\* wrote; the importer finds the key list.
SidecarPathRoundTrip ==
  /\ sidecar_named =>
       opened(duplicate_codes_path_of) = opened(Path(pf.args.duplicate_codes_out))
  /\ (pc = "aborted" /\ pf.pc = "done") => err # "Missing duplicate codes file"

\* the same for an absolute sidecar path or a manifest in the working
\* directory
SidecarPathRoundTripSameDirectory ==
  (pf.pc = "done"
     /\ (Path(pf.args.duplicate_codes_out).abs
           \/ path_parent(Path(pf.args.manifest_out)).parts = <<>>))
    => SidecarPathRoundTrip

(***************************************************************************)
(* Properties of the row loop and the chunked loader.                      *)
(***************************************************************************)
\* C21: at every point of an import run duplicate_best holds at most one
\* candidate per key and only keys of the duplicate-key set in effect; its
\* size is at most the size of that set, however many rows were read.
CandidatesBounded ==
  /\ \A i, j \in 1..Len(ld.duplicate_best) :
       i # j => ld.duplicate_best[i].code_norm # ld.duplicate_best[j].code_norm
  /\ \A i \in 1..Len(ld.duplicate_best) :
       ld.duplicate_best[i].code_norm \in gate.duplicate_codes
  /\ Len(ld.duplicate_best) <= Cardinality(gate.duplicate_codes)

\* three rows of one listed key were read and one candidate is held
CandidatesBoundedWitness ==
  /\ Len(ld.duplicate_best) = 1
  /\ Cardinality({i \in 1..Len(rows_seen) :
                    rows_seen[i].code_norm = ld.duplicate_best[1].code_norm}) = 3

\* the product lines emitted so far, in the order they were emitted
emitted_lines == [i \in 1..Len(hist.emitted) |-> hist.emitted[i].product_line]

\* a flush call is in progress
in_flush == pc \in {"flush", "attempt", "copied"}

\* C22: a bulk load is issued exactly when the rows accumulated since the
\* last flush reach --chunk-rows, or at end of stream for a remainder; the
\* buffer holds the rows accumulated since the last flush; no row is emitted
\* while a load is unresolved; a product chunk has at most --chunk-rows rows;
\* the rows committed are the rows emitted, in file order, each sent once:
\* emitted = committed followed by the buffer.
ChunkedLoad ==
  /\ in_flush =>
       \/ fl.ret = "metadata" /\ ld.rows_in_chunk # 0
       \/ fl.ret \in {"read", "resolve"} /\ ld.rows_in_chunk = args.chunk_rows
  /\ pc \in {"read", "resolve"} =>
       /\ ld.rows_in_chunk < args.chunk_rows
       /\ Len(ld.product_buf) = ld.rows_in_chunk
  /\ (pc \in {"attempt", "copied"} /\ fl.kind = "product_raw") =>
       /\ Len(fl.data) <= args.chunk_rows
       /\ fl.data = ld.product_buf
  /\ pc \in {"metadata", "indexes", "done"} =>
       ld.product_buf = <<>> /\ ld.nutrient_buf = <<>>
  /\ pc # "aborted" =>
       emitted_lines =
         IF pc = "copied" /\ fl.kind = "product_raw" THEN db.product_raw
         ELSE db.product_raw \o ld.product_buf

\* the same for runs that make an attempt at all
ChunkedLoadWithAttempts == args.retries >= 0 => ChunkedLoad

(***************************************************************************)
(* Properties of the backoff.                                              *)
(***************************************************************************)
\* the sleep of the i-th retry event without its jitter
fixed_part(i) == fn.out[i].sleep_ms - jitter_of(fn.arg.jitter, i - 1)

\* C23: the sleep after failed attempt k is min(base * 2^k, 10 s) plus a
\* jitter in [0, 0.05 s); for a base >= 0 the part without jitter starts at
\* min(base, 10 s), doubles from one attempt to the next until the double
\* would pass the cap, is 10 s from then on, never decreases and never
\* exceeds 10 s; the retry event before the sleep reports attempt k + 1.
BackoffDoublesToCap ==
  (fn.op = "backoff" /\ fn.done) =>
    \A i \in 1..Len(fn.out) :
      /\ fn.out[i].attempt = i
      /\ fn.out[i].sleep_ms - fixed_part(i) \in 0..(jitter_ms - 1)
      /\ fixed_part(i) = min_of(fn.arg.retry_sleep_ms * (2 ^ (i - 1)), cap_ms)
      /\ fn.arg.retry_sleep_ms >= 0 =>
           /\ fixed_part(i) <= cap_ms
           /\ i = 1 => fixed_part(i) = min_of(fn.arg.retry_sleep_ms, cap_ms)
           /\ i > 1 =>
                /\ fixed_part(i) >= fixed_part(i - 1)
                /\ fixed_part(i) = IF 2 * fixed_part(i - 1) <= cap_ms
                                   THEN 2 * fixed_part(i - 1) ELSE cap_ms

\* the default base 0.5 s: six failed attempts, the last sleep at the cap
BackoffDoublesToCapWitness ==
  /\ fn.op = "backoff" /\ fn.done
  /\ fn.arg.retry_sleep_ms = 500 /\ Len(fn.out) = 6
  /\ fixed_part(5) = 8000 /\ fixed_part(6) = cap_ms

(***************************************************************************)
(* Properties of the manifest readers.                                     *)
(***************************************************************************)
\* the run has a readable manifest and has been through lines 252-280
manifest_was_read ==
  /\ args.has_manifest /\ fs.manifest_file = "ok"
  /\ pc \notin {"idle", "start", "manifest"}
  /\ ~(pc = "aborted"
         /\ err \in {"Missing input", "Missing preflight identity", "SHA-256 mismatch"})

sha_passes == fs.manifest.file_sha256 = JStr(fs.tsv_sha256)

bytes_pass == fs.manifest.file_bytes = JInt(fs.tsv_bytes)

stopped_with(e) == pc = "aborted" /\ err = e

\* the texts of the model that read as true and as false
TrueTexts == { <<"T", "r", "u", "e", " ">> }
FalseTexts == { <<" ", "f", "A", "L", "s", "e">> }

\* C24: a manifest without file_sha256, file_bytes or duplicates_found stops
\* the run with the error naming that field (an absent key reads as None);
\* duplicates_found is taken as given when it is a JSON boolean or a text
\* true/false in any case with surrounding whitespace, any other value
\* stops the run; a file_bytes that does not convert to an integer stops
\* the run.
ManifestFieldsValidated ==
  manifest_was_read =>
    /\ fs.manifest.file_sha256.k = "absent" =>
         stopped_with("Preflight manifest missing file_sha256")
    /\ (sha_passes /\ fs.manifest.file_bytes.k = "absent") =>
         stopped_with("Preflight manifest missing file_bytes")
    /\ (sha_passes /\ fs.manifest.file_bytes = JStr(<<"x">>)) =>
         stopped_with("Invalid preflight manifest field")
    /\ (sha_passes /\ bytes_pass) =>
         /\ fs.manifest.duplicates_found.k = "absent" =>
              stopped_with("Preflight manifest missing duplicates_found")
         /\ (fs.manifest.duplicates_found.k = "str"
               /\ fs.manifest.duplicates_found.s \notin TrueTexts \cup FalseTexts) =>
              stopped_with("Invalid preflight manifest field")
         /\ fs.manifest.duplicates_found.k \notin {"absent", "bool", "str"} =>
              stopped_with("Invalid preflight manifest field")
         /\ (fs.manifest.duplicates_found.k = "bool"
               \/ fs.manifest.duplicates_found.s \in TrueTexts \cup FalseTexts) =>
              /\ ~stopped_with("Invalid preflight manifest field")
              /\ ~stopped_with("Preflight manifest missing duplicates_found")
              /\ fs.manifest.duplicate_codes_path.k \in {"absent", "str"} =>
                   gate.manifest_duplicates =
                     \/ fs.manifest.duplicates_found = JBool(TRUE)
                     \/ fs.manifest.duplicates_found.s \in TrueTexts
                     \/ fs.manifest.duplicate_values = JInt(1)
                     \/ fs.manifest.duplicate_occurrences = JInt(1)

\* duplicates_found is a text that is neither true nor false
ManifestFieldsValidatedWitness ==
  /\ manifest_was_read /\ sha_passes /\ bytes_pass
  /\ fs.manifest.duplicates_found = JStr(<<"x">>)
  /\ stopped_with("Invalid preflight manifest field")

(***************************************************************************)
(* Properties of the sidecar and the manifest sample.                      *)
(***************************************************************************)
\* the keys of lines at their second occurrence, in the order of lines
RECURSIVE second_occurrences(_)
second_occurrences(lines) ==
  IF lines = <<>> THEN <<>>
  ELSE LET front == SubSeq(lines, 1, Len(lines) - 1)
           last == lines[Len(lines)]
       IN  IF times_in(lines, last) = 2 THEN Append(second_occurrences(front), last)
           ELSE second_occurrences(front)

\* C25: after every line of the scan the sidecar, when one is requested,
\* holds each key that has occurred twice or more exactly once, written at
\* its second occurrence, in ascending byte order, and duplicate_codes_count
\* is duplicate_values; without a sidecar nothing is written and the count
\* is 0.  The sample holds the first min(cap, duplicate_values) of these
\* keys and is never longer than the cap; the manifest carries both.
SidecarListsDuplicates ==
  (pf.pc \in {"scan", "done", "failed"}) =>
    LET dups == second_occurrences(scanned)
        cap == pf.args.duplicate_samples
    IN  /\ \A i, j \in 1..Len(dups) : i < j => bytes_less(dups[i], dups[j])
        /\ keys_of(dups) = {k \in keys_of(scanned) : times_in(scanned, k) >= 2}
        /\ Len(dups) = pf.duplicate_values
        /\ IF pf.args.duplicate_codes_out # <<>> /\ pf.duplicate_fh # "none"
             THEN pf.sidecar = dups /\ pf.duplicate_codes_count = pf.duplicate_values
           ELSE pf.sidecar = <<>> /\ pf.duplicate_codes_count = 0
        /\ Len(pf.duplicate_samples) <= cap
        /\ pf.duplicate_samples = SubSeq(dups, 1, min_of(cap, pf.duplicate_values))
        /\ pf.manifest_written =>
             /\ pf.manifest.duplicate_samples = pf.duplicate_samples
             /\ pf.manifest.duplicate_codes_count.n = pf.duplicate_codes_count

\* two duplicate keys in the sidecar, the sample capped at one
SidecarListsDuplicatesWitness ==
  /\ pf.pc = "done" /\ pf.manifest_written
  /\ Len(pf.sidecar) = 2 /\ pf.args.duplicate_samples = 1
  /\ Len(pf.manifest.duplicate_samples) = 1
  /\ pf.unsorted[1] # pf.sorted[1]

(***************************************************************************)
(* Properties of rows without a key.                                       *)
(***************************************************************************)
\* the code cell of a row holds no digit
keyless(headers, row) ==
  \A i \in 1..Len(get(headers, row, "code")) :
    ~IsDigitChar(get(headers, row, "code")[i])

\* the importer's step reads a row without a key
importer_reads_keyless ==
  /\ pc = "read"
  /\ Len(hist'.rows_read) = Len(hist.rows_read) + 1
  /\ keyless(fs.headers, hist'.rows_read[Len(hist'.rows_read)])

\* preflight's step reads a row without a key
preflight_reads_keyless ==
  /\ pf.pc = "read" /\ pf'.pc = "read"
  /\ pf'.pos = pf.pos + 1
  /\ keyless(pf.headers, pf.input.rows[pf.pos + 1])

\* C26: a row whose normalized key is empty raises skipped_no_code by one
\* and changes nothing else: preflight writes no scratch line and does not
\* count it in code_total; the importer makes no product row, no nutrient
\* observation, no duplicate candidate and no seen-codes entry for it.
KeylessRowOnlyCounted ==
  [][ /\ importer_reads_keyless =>
           /\ ld' = [ld EXCEPT !.skipped_no_code = @ + 1]
           /\ hist'.emitted = hist.emitted
           /\ UNCHANGED << pc, err, fl, db, log >>
      /\ preflight_reads_keyless =>
           pf' = [pf EXCEPT !.pos = @ + 1, !.skipped_no_code = @ + 1] ]_vars

\* the importer has read a keyed row and then a row without a key
KeylessRowOnlyCountedWitness ==
  /\ Len(hist.rows_read) = 2
  /\ ~keyless(fs.headers, hist.rows_read[1])
  /\ keyless(fs.headers, hist.rows_read[2])
  /\ ld.skipped_no_code = 1 /\ ld.products + Len(ld.duplicate_best) = 1

(***************************************************************************)
(* The energy column, invalid cells and the COPY encoding.                 *)
(***************************************************************************)
kj_text == strip(get(fn.arg.headers, fn.arg.row, "energy-kj_100g"))
generic_text == strip(get(fn.arg.headers, fn.arg.row, "energy_100g"))

\* C27: for every header order and both nutrient modes the product column
\* energy_kj_100g holds the energy-kj_100g cell whenever that cell is a valid
\* number, and the energy_100g cell only when it is valid and the
\* energy-kj_100g cell is not.
KjColumnPrefersKj ==
  (fn.op = "transform" /\ fn.done) =>
    fn.out.base["energy_kj_100g"] =
      IF IsFloatLiteral(kj_text) THEN kj_text
      ELSE IF IsFloatLiteral(generic_text) THEN generic_text
      ELSE <<>>

KjColumnPrefersKjWitness ==
  /\ fn.op = "transform" /\ fn.done
  /\ fn.arg.headers = << "code", "energy_100g", "energy-kj_100g", "fat_100g" >>
  /\ kj_text = <<"5">> /\ generic_text = <<"7">>
  /\ fn.out.base["energy_kj_100g"] = <<"5">>

\* the fields of a COPY line: the text before the newline, cut at the tabs
fields_of(line) == split(SubSeq(line, 1, Len(line) - 1), "\t", <<>>, <<>>)

column_of(name) == CHOOSE i \in 1..Len(product_cols) : product_cols[i] = name

is_int_text(v) ==
  v # <<>> /\ \A i \in 1..Len(IF Head(v) = "-" THEN Tail(v) ELSE v) :
                 IsDigitChar((IF Head(v) = "-" THEN Tail(v) ELSE v)[i])

lines_from(out, source_field) ==
  {i \in 1..Len(out.nutrient_lines) : out.nutrient_lines[i].source_field = source_field}

\* C28: a row whose nutrient or last_modified_t cell fails the numeric
\* validation still yields its product record, with the NULL marker in that
\* column and no observation for the field; a column absent from the header
\* and a cell beyond the end of a short row read as empty.
InvalidCellIsNull ==
  (fn.op = "product_line" /\ fn.done) =>
    LET fields == fields_of(fn.out.line)
        cell(name) == get(fn.arg.headers, fn.arg.row, name)
    IN  /\ Len(fields) = Len(product_cols)
        /\ fields[column_of("code_norm")] = fn.out.t.code_norm
        /\ fn.out.t.code_norm # <<>>
        /\ ~is_int_text(strip(cell("last_modified_t"))) =>
             fields[column_of("last_modified_t")] = null_marker
        /\ ~IsFloatLiteral(strip(cell("fat_100g"))) =>
             /\ fields[column_of("fat_100g")] = null_marker
             /\ lines_from(fn.out.t, "fat_100g") = {}
        /\ Len(fn.arg.row) < 4 => fields[column_of("fat_100g")] = null_marker
        /\ Len(fn.arg.row) < 3 => fields[column_of("last_modified_t")] = null_marker
        /\ Len(fn.arg.row) < 2 => fields[column_of("product_name")] = <<>>
        /\ fields[column_of("brands")] = <<>>
        /\ fields[column_of("protein_100g")] = null_marker
        /\ lines_from(fn.out.t, "proteins_100g") = {}

InvalidCellIsNullWitness ==
  /\ fn.op = "product_line" /\ fn.done
  /\ fn.arg.row = << <<"1">>, <<"5">>, <<"x">> >>
  /\ fields_of(fn.out.line)[column_of("last_modified_t")] = null_marker
  /\ fields_of(fn.out.line)[column_of("fat_100g")] = null_marker
  /\ fields_of(fn.out.line)[column_of("product_name")] = <<"5">>

\* what COPY reads back from an encoded field
copy_unescaped(c) ==
  CASE c = "t" -> "\t" [] c = "n" -> "\n" [] c = "r" -> "\r"
    [] c = "b" -> "BS" [] c = "f" -> "\f" [] c = "v" -> "VT"
    [] OTHER -> c

RECURSIVE copy_unescape(_)
copy_unescape(s) ==
  IF s = <<>> THEN <<>>
  ELSE IF Head(s) = "\\" /\ Len(s) >= 2
    THEN << copy_unescaped(s[2]) >> \o copy_unescape(SubSeq(s, 3, Len(s)))
  ELSE << Head(s) >> \o copy_unescape(Tail(s))

not_nul(ch) == ch # "NUL"

\* C29: an encoded field holds no raw tab, newline, carriage return or NUL;
\* reading its escapes back gives the value without its NULs; the NULL
\* marker comes out exactly for an empty value of a numeric column and an
\* empty value of another column comes out empty; every product line is 18
\* tab-separated fields and one newline, at its end.
CopyFieldRoundTrip ==
  /\ (fn.op = "copy_cell" /\ fn.done) =>
       /\ \A i \in 1..Len(fn.out) : fn.out[i] \notin {"\t", "\n", "\r", "NUL"}
       /\ fn.out = null_marker <=> (fn.arg.null_if_empty /\ fn.arg.value = <<>>)
       /\ fn.out # null_marker =>
            copy_unescape(fn.out) = SelectSeq(fn.arg.value, not_nul)
       /\ (fn.arg.value = <<>> /\ ~fn.arg.null_if_empty) => fn.out = <<>>
  /\ (fn.op = "product_line" /\ fn.done) =>
       /\ count_of("\n", fn.out.line) = 1
       /\ fn.out.line[Len(fn.out.line)] = "\n"
       /\ Len(fields_of(fn.out.line)) = 18
       /\ \A i \in 1..18 :
            fields_of(fn.out.line)[i] # null_marker =>
              copy_unescape(fields_of(fn.out.line)[i])
                = SelectSeq(fn.out.t.base[product_cols[i]], not_nul)

CopyFieldRoundTripWitness ==
  /\ fn.op = "copy_cell" /\ fn.done
  /\ fn.arg.value = << "\\", "N", "\t" >>
  /\ fn.out = << "\\", "\\", "N", "\\", "t" >>

ProductLineFieldsWitness ==
  /\ fn.op = "product_line" /\ fn.done
  /\ fn.arg.row = << <<"1">>, <<"a", "\t", "b">>, <<"\\", "N">>, <<"5", "\n">> >>
  /\ Len(fields_of(fn.out.line)) = 18

(***************************************************************************)
(* The import_metadata row.                                                *)
(***************************************************************************)
\* every product row emitted by the row loop and the resolver is committed
all_committed == emitted_lines = db.product_raw

\* C30: a run that returned success has appended exactly one
\* import_metadata row and a run that aborted has appended none; the row is
\* there only once every chunk, resolved duplicates included, is committed.
MetadataOncePerSuccess ==
  /\ pc = "done" => db.import_metadata = 1
  /\ pc = "aborted" => db.import_metadata = 0
  /\ db.import_metadata # 0 => all_committed

\* the abort that leaves a row behind, in runs that attempt their loads
MetadataNoneOnAbort ==
  (args.retries >= 0 /\ pc = "aborted") => db.import_metadata = 0

\* what the code keeps: at most one row, one after success, inserted after
\* the last flush returned, and left behind only by an abort of the index
\* statements that follow its commit
MetadataAfterLastFlush ==
  /\ db.import_metadata <= 1
  /\ pc = "done" => db.import_metadata = 1
  /\ db.import_metadata = 1 =>
       /\ pc \in {"indexes", "done", "aborted"}
       /\ ld.product_buf = <<>>
       /\ args.retries >= 0 => all_committed
  /\ (pc = "aborted" /\ db.import_metadata = 1) =>
       ~args.skip_indexes /\ err = "DatabaseError"

(***************************************************************************)
(* The sort step of preflight and the manifest.                            *)
(***************************************************************************)
\* C31: a sort that cannot be started and a sort that exits nonzero both end
\* preflight with a failure, each with its own message; a run that failed,
\* at the sort or anywhere else, has written no manifest; the manifest is
\* written only by the step that follows the scan of the whole sorted file.
SortFailuresFatal ==
  pf.pc # "idle" =>
    /\ pf.sort_outcome = "missing" =>
         /\ pf.pc = "failed"
         /\ pf.err = "Missing required external command: sort"
    /\ pf.sort_outcome \in SortExitCodes =>
         /\ pf.pc = "failed"
         /\ pf.err # "Missing required external command: sort"
         /\ pf.err = "External sort failed with exit code " \o pf.sort_outcome
    /\ pf.pc = "failed" => ~pf.manifest_written
    /\ pf.manifest_written =>
         /\ pf.pc = "done" /\ pf.sort_outcome = "0"
         /\ pf.scan_pos = Len(pf.sorted)
         /\ Len(pf.sorted) = pf.codes_total

SortFailuresFatalWitness ==
  /\ pf.pc = "failed" /\ pf.sort_outcome = "2"
  /\ pf.codes_total = 2 /\ ~pf.manifest_written

SortMissingWitness ==
  /\ pf.pc = "failed" /\ pf.sort_outcome = "missing" /\ pf.codes_total = 2

(***************************************************************************)
(* --dedupe memory.                                                        *)
(***************************************************************************)
\* positions of the rows read that have a key, and the keys among them
keyed_rows == {i \in 1..Len(hist.seen) : hist.seen[i].code_norm # <<>>}
distinct_keys == {hist.seen[i].code_norm : i \in keyed_rows}

\* the first row read with the key
first_row_of(code_norm) ==
  hist.seen[CHOOSE i \in keyed_rows :
              /\ hist.seen[i].code_norm = code_norm
              /\ \A j \in keyed_rows : hist.seen[j].code_norm = code_norm => i <= j]

\* the rows handed to the buffers or held for the resolver, by key
emitted_of(code_norm) ==
  {i \in 1..Len(hist.emitted) : hist.emitted[i].code_norm = code_norm}
held_of(code_norm) ==
  {i \in ld.resolve_pos..Len(ld.duplicate_best) :
     ld.duplicate_best[i].code_norm = code_norm}

\* C32: with --dedupe memory, of the rows of one key only the first in file
\* order is emitted (at once, or by the resolver when the key is listed);
\* a later row of the key changes nothing but skipped_duplicate_code, which
\* equals the keyed rows read less the distinct keys among them.
MemoryDedupeKeepsFirst ==
  (args.dedupe = "memory" /\ pc # "idle") =>
    /\ ld.skipped_duplicate_code = Cardinality(keyed_rows) - Cardinality(distinct_keys)
    /\ ld.seen_codes = distinct_keys
    /\ \A k \in distinct_keys :
         /\ Cardinality(emitted_of(k)) + Cardinality(held_of(k)) <= 1
         /\ \A i \in emitted_of(k) :
              /\ hist.emitted[i].product_line = first_row_of(k).product_line
              /\ hist.emitted[i].nutrient_lines = first_row_of(k).nutrient_lines
         /\ \A i \in held_of(k) :
              ld.duplicate_best[i].product_line = first_row_of(k).product_line
         /\ pc \in {"metadata", "indexes", "done"} => Cardinality(emitted_of(k)) = 1
    /\ ld.products + Len(ld.duplicate_best) - (ld.resolve_pos - 1)
         + ld.skipped_duplicate_code = Cardinality(keyed_rows)

\* three rows of key 1 that differ and one emitted: the first
MemoryDedupeKeepsFirstWitness ==
  /\ args.dedupe = "memory" /\ pc = "done"
  /\ Len(hist.seen) = 3 /\ Cardinality(keyed_rows) = 3
  /\ Cardinality(distinct_keys) = 1
  /\ hist.seen[1].product_line # hist.seen[2].product_line
  /\ hist.seen[3].score # hist.seen[1].score
  /\ log.done.skipped_duplicate_code = 2 /\ log.done.products = 1

(***************************************************************************)
(* --max-rows.                                                             *)
(***************************************************************************)
\* the rows emitted by the row loop, and those emitted by the resolver
from_stream == {i \in 1..Len(hist.emitted) : hist.emitted[i].via = "stream"}
from_resolver == {i \in 1..Len(hist.emitted) : hist.emitted[i].via = "resolve"}

\* C33: with --max-rows N > 0 the products total never exceeds N, the rows
\* of the resolver included, and neither do the product rows committed.
MaxRowsCapsProducts ==
  args.max_rows > 0 =>
    /\ ld.products <= args.max_rows
    /\ log.done.products <= args.max_rows
    /\ Len(db.product_raw) <= args.max_rows

\* what the code keeps: the cap holds for the rows the row loop emits; the
\* resolver adds one row for every key it holds, whatever the cap
MaxRowsCapsStream ==
  /\ args.max_rows > 0 => Cardinality(from_stream) <= args.max_rows
  /\ ld.products = Cardinality(from_stream) + Cardinality(from_resolver)
  /\ Cardinality(from_resolver) = ld.duplicates_resolved
  /\ (args.max_rows > 0 /\ ld.products > args.max_rows) => ld.duplicates_resolved > 0

\* without a cap every row of the file is read
NoCapReadsAll ==
  /\ args.max_rows = 0 /\ pc = "done"
  /\ Len(hist.rows_read) = MaxFileRows /\ log.done.products > MaxMaxRows

(***************************************************************************)
(* flush() for every --retries value.                                      *)
(***************************************************************************)
\* C34: for every --retries value, when copy_with_retry has returned to
\* flush() (which then logs chunk_commit and drops the buffer) the data of
\* the buffer is committed on top of the rows the table held; a run that did
\* not abort has lost no emitted row.
FlushCommitsBeforeDiscard ==
  /\ pc = "copied" =>
       /\ fl.committed
       /\ db[fl.kind] = fl.base \o fl.data
  /\ pc \in {"read", "resolve", "metadata", "indexes", "done"} =>
       emitted_lines = db.product_raw \o ld.product_buf

\* the same for the --retries values that give the loop a first attempt
FlushCommitsWithAttempts == args.retries >= 0 => FlushCommitsBeforeDiscard

\* a run with a negative --retries that ends in success with nothing loaded
NegativeRetriesLoadNothing ==
  /\ args.retries < 0 /\ pc = "done"
  /\ Len(hist.emitted) = 2 /\ db.product_raw = <<>>
  /\ log.chunk_commits > 0 /\ log.done.products = 2

(***************************************************************************)
(* Products before nutrients.                                              *)
(***************************************************************************)
committed_keys == {db.product_raw[j][1] : j \in 1..Len(db.product_raw)}

\* C35: in every state of a run, aborted ones included, each observation
\* committed to nutrient_100g has its product row committed to product_raw;
\* when the nutrient rows of a chunk are sent, the product rows of the chunk
\* are committed and the product buffer is empty.
ProductsBeforeNutrients ==
  /\ \A i \in 1..Len(db.nutrient_100g) :
       db.nutrient_100g[i].code_norm \in committed_keys
  /\ (pc = "attempt" /\ fl.kind = "nutrient_100g") =>
       /\ ld.product_buf = <<>>
       /\ \A i \in 1..Len(fl.data) : fl.data[i].code_norm \in committed_keys
       /\ \A i \in 1..Len(db.tx) : db.tx[i].code_norm \in committed_keys

\* the nutrient load of a chunk failed after its product rows were committed
ProductsBeforeNutrientsWitness ==
  /\ pc = "aborted" /\ fl.kind = "nutrient_100g" /\ fl.tries > 0
  /\ Len(db.product_raw) = 2 /\ Len(db.nutrient_100g) = 1
  /\ Len(fl.data) > 0

(***************************************************************************)
(* The energy column and the energy observation in minimal mode.           *)
(***************************************************************************)
\* the energy_kj observations of the row transformed
energy_lines == lines_of_key(fn.out.nutrient_lines, "energy_kj")

\* C36: in minimal mode the product column energy_kj_100g is filled exactly
\* when the row has an energy_kj observation, and the observation carries
\* the value of the column.
EnergyColumnIffObservation ==
  (fn.op = "transform" /\ fn.done /\ fn.arg.mode = "minimal") =>
    /\ fn.out.base["energy_kj_100g"] # <<>> <=> energy_lines # {}
    /\ \A i \in energy_lines :
         fn.out.nutrient_lines[i].value = fn.out.base["energy_kj_100g"]

\* what the code keeps: an observation has the value of the column, and a
\* filled column lacks its observation only for a generic value next to an
\* energy-kj_100g cell that is not empty and not a number
EnergyObservationHasColumn ==
  (fn.op = "transform" /\ fn.done /\ fn.arg.mode = "minimal") =>
    /\ \A i \in energy_lines :
         fn.out.nutrient_lines[i].value = fn.out.base["energy_kj_100g"]
    /\ (fn.out.base["energy_kj_100g"] # <<>> /\ energy_lines = {}) =>
         /\ get(fn.arg.headers, fn.arg.row, "energy-kj_100g") # <<>>
         /\ ~IsFloatLiteral(kj_text)
         /\ fn.out.base["energy_kj_100g"] = generic_text

\* a whitespace-only energy-kj_100g cell next to a numeric energy_100g cell
BlankKjDropsObservation ==
  /\ fn.op = "transform" /\ fn.done /\ fn.arg.mode = "minimal"
  /\ get(fn.arg.headers, fn.arg.row, "energy-kj_100g") = <<" ">>
  /\ fn.out.base["energy_kj_100g"] = <<"7">>
  /\ energy_lines = {}

(***************************************************************************)
(* AgreeSpec: preflight over a file, then a whole import of the same file  *)
(* with the manifest and the sidecar preflight left.                       *)
(***************************************************************************)
\* the reader of the importer yields the next row of the file
ReadFileRow ==
  /\ pf.pc = "done"
  /\ Len(hist.rows_read) < Len(pf.input.rows)
  /\ ProcessRow(pf.input.rows[Len(hist.rows_read) + 1])

\* the reader is exhausted at the end of the file
EndOfFile ==
  /\ pf.pc = "done"
  /\ Len(hist.rows_read) = Len(pf.input.rows)
  /\ EndOfStream

InitAgree ==
  /\ idle_importer
  /\ fn = NoCall
  /\ us = NoUsda
  /\ \E cfg \in PreflightConfigs, rows \in PreflightRows :
       /\ Len(rows) <= MaxFileRows
       /\ pf = preflight_start(cfg, rows)

AgreeNext ==
  \/ PreflightNext
  \/ Handoff
  \/ GateNext
  \/ ReadFileRow
  \/ EndOfFile
  \/ StartFlush
  \/ CopyCommitted
  \/ CopyFailed
  \/ FlushReturn
  \/ ResolveDuplicate
  \/ FinalFlush
  \/ InsertMetadata
  \/ Finish

AgreeSpec == InitAgree /\ [][AgreeNext]_vars

\* C37: an import with --dedupe none of the file preflight read, with the
\* manifest and the sidecar preflight wrote, ends with products equal to
\* code_unique, skipped_no_code equal to the manifest's and
\* duplicates_resolved equal to duplicate_values.
ImportAgreesWithPreflight ==
  (pf.pc = "done" /\ pc = "done" /\ args.dedupe = "none") =>
    /\ log.done.products = pf.manifest.code_unique.n
    /\ log.done.skipped_no_code = pf.manifest.skipped_no_code.n
    /\ log.done.duplicates_resolved = pf.manifest.duplicate_values.n
    /\ Len(db.product_raw) = pf.manifest.code_unique.n

\* a file of three rows: a key twice and a row without key
ImportAgreesWithPreflightWitness ==
  /\ pf.pc = "done" /\ pc = "done" /\ args.dedupe = "none"
  /\ Len(pf.input.rows) = 3
  /\ pf.manifest.code_unique.n = 1
  /\ pf.manifest.skipped_no_code.n = 1
  /\ pf.manifest.duplicate_values.n = 1
  /\ log.done.duplicates_resolved = 1

(***************************************************************************)
(* The counters of the done event.                                         *)
(***************************************************************************)
\* the row loop or the resolver is between two statements of its body
at_loop == pc \in {"read", "resolve"}

\* C38: when a run completes, products of the done event is the number of
\* rows committed to product_raw and nutrients the number of rows committed
\* to nutrient_100g; between two rows, products is the rows committed plus
\* the lines of the product buffer, nutrients likewise, and rows_in_chunk is
\* the number of lines of the product buffer.
DoneCountsCommitted ==
  /\ pc = "done" =>
       /\ log.done.products = Len(db.product_raw)
       /\ log.done.nutrients = Len(db.nutrient_100g)
  /\ at_loop =>
       /\ ld.products = Len(db.product_raw) + Len(ld.product_buf)
       /\ ld.nutrients = Len(db.nutrient_100g) + Len(ld.nutrient_buf)
       /\ ld.rows_in_chunk = Len(ld.product_buf)

\* the same for the --retries values that give the loop a first attempt
DoneCountsCommittedWithAttempts == args.retries >= 0 => DoneCountsCommitted

\* a run that reports two products and has committed none
DoneCountsNothingCommitted ==
  /\ pc = "done" /\ args.retries < 0
  /\ log.done.products = 2 /\ log.done.nutrients = 1
  /\ db.product_raw = <<>> /\ db.nutrient_100g = <<>>

(***************************************************************************)
(* Properties of the column identifiers.                                   *)
(***************************************************************************)
normalized_headers == [i \in 1..Len(fn.arg) |-> normalize_identifier(fn.arg[i])]

\* C40: for every list of raw headers the identifiers are as many as the
\* headers and pairwise distinct.
IdentifiersDistinct ==
  (fn.op = "unique_identifiers" /\ fn.done) =>
    /\ Len(fn.out) = Len(fn.arg)
    /\ \A i, j \in 1..Len(fn.out) : i # j => fn.out[i] # fn.out[j]

\* a header whose normalized name is the suffixed name of another header
suffix_clash ==
  \E i, j \in 1..Len(fn.arg), k \in 2..Len(fn.arg) :
    normalized_headers[i] = suffixed(normalized_headers[j], k)

\* what the code keeps: as many identifiers as headers, the first
\* occurrence of a name unchanged, and distinct identifiers unless a
\* normalized name has the form of a suffixed one
IdentifiersDistinctWithoutClash ==
  (fn.op = "unique_identifiers" /\ fn.done) =>
    /\ Len(fn.out) = Len(fn.arg)
    /\ ~suffix_clash =>
         \A i, j \in 1..Len(fn.out) : i # j => fn.out[i] # fn.out[j]

\* headers that normalize to a, a, a_2
SuffixClashTwice ==
  /\ fn.op = "unique_identifiers" /\ fn.done
  /\ normalized_headers = << <<"a">>, <<"a">>, <<"a", "_", "2">> >>
  /\ fn.out = << <<"a">>, <<"a", "_", "2">>, <<"a", "_", "2">> >>

(***************************************************************************)
(* The USDA importer loading one table, import_usda_fdc.py lines 613-802.  *)
(* --resume is off and the table is empty at the start; rows of the CSV    *)
(* file are numbered; --chunk-rows is counted in units of the smallest     *)
(* value the command line takes.                                           *)
(***************************************************************************)
\* most data rows of the CSV file
MaxCsvRows == 3

\* a handler that retries without truncating
needs_truncate_never(table_committed_rows) == FALSE

\* line 782: rows of this table were committed by the failed attempt
needs_truncate(table_committed_rows) == table_committed_rows # 0

\* lines 613-614 and the top of the while loop, lines 616-628
usda_start(n, bad, retries, chunk_rows, other_rows) ==
  [pc |-> "load", err |-> "", retries |-> retries, chunk_rows |-> chunk_rows,
   csv |-> [i \in 1..n |-> i], bad |-> bad, other_rows |-> other_rows,
   table |-> <<>>, pos |-> 0, buf |-> <<>>, rows_in_chunk |-> 0, ret |-> "",
   table_committed_rows |-> 0, overall_loaded_rows |-> other_rows,
   attempt |-> 0, truncates |-> 0]

\* lines 686-762: one row of the reader; the row at position bad fails its
\* validation with ValueError
UsdaReadRow ==
  /\ us.pc = "load" /\ us.pos < Len(us.csv)
  /\ us' = IF us.pos + 1 = us.bad
             THEN [us EXCEPT !.pc = "handler", !.err = "ValueError"]
           ELSE [us EXCEPT !.pos = @ + 1,
                           !.buf = Append(@, us.csv[us.pos + 1]),
                           !.rows_in_chunk = @ + 1,
                           !.pc = IF us.rows_in_chunk + 1 >= us.chunk_rows
                                    THEN "flush" ELSE "load",
                           !.ret = "load"]
  /\ UNCHANGED << importer_vars, pf, fn >>

\* line 764: the reader is exhausted, the last flush is called
UsdaEndOfFile ==
  /\ us.pc = "load" /\ us.pos = Len(us.csv)
  /\ us' = [us EXCEPT !.pc = "flush", !.ret = "done"]
  /\ UNCHANGED << importer_vars, pf, fn >>

\* flush(), lines 641-664: nothing for an empty buffer; COPY and COMMIT,
\* then the counters and a fresh buffer; or COPY or COMMIT raises.  After
\* the last flush comes table_done and break, lines 766-768
UsdaFlush ==
  /\ us.pc = "flush"
  /\ \/ /\ us.buf = <<>>
        /\ us' = [us EXCEPT !.pc = us.ret]
     \/ /\ us.buf # <<>>
        /\ us' = [us EXCEPT !.table = @ \o us.buf,
                            !.table_committed_rows = @ + us.rows_in_chunk,
                            !.overall_loaded_rows = @ + us.rows_in_chunk,
                            !.rows_in_chunk = 0, !.buf = <<>>,
                            !.pc = us.ret]
     \/ /\ us.buf # <<>>
        /\ us' = [us EXCEPT !.pc = "handler", !.err = "DatabaseError"]
  /\ UNCHANGED << importer_vars, pf, fn >>

\* the locals a new pass of the while loop starts with, lines 616-628
next_attempt(u) ==
  [u EXCEPT !.pc = "load", !.err = "", !.pos = 0, !.buf = <<>>,
            !.rows_in_chunk = 0]

\* lines 769-802: rollback, attempt += 1, re-raise when attempt > retries;
\* else TRUNCATE and COMMIT when rows were committed (re-raise when that
\* fails), the counters are reset, sleep, and the loop starts over
UsdaHandler ==
  /\ us.pc = "handler"
  /\ \/ /\ us.attempt + 1 > us.retries
        /\ us' = [us EXCEPT !.attempt = @ + 1, !.pc = "failed"]
     \/ /\ us.attempt + 1 <= us.retries
        /\ ~needs_truncate(us.table_committed_rows)
        /\ us' = next_attempt([us EXCEPT !.attempt = @ + 1])
     \/ /\ us.attempt + 1 <= us.retries
        /\ needs_truncate(us.table_committed_rows)
        /\ \/ us' = next_attempt(
                      [us EXCEPT !.attempt = @ + 1, !.table = <<>>,
                                 !.overall_loaded_rows = @ - us.table_committed_rows,
                                 !.table_committed_rows = 0,
                                 !.truncates = @ + 1])
           \/ us' = [us EXCEPT !.attempt = @ + 1, !.pc = "failed",
                               !.err = "cleanup failed"]
  /\ UNCHANGED << importer_vars, pf, fn >>

InitUsda ==
  /\ idle_importer
  /\ pf = NoPreflight
  /\ fn = NoCall
  /\ \E n \in 0..MaxCsvRows, retries \in (0 - 1)..MaxRetries,
        chunk_rows \in 1..MaxChunkRows, other_rows \in {0, 2} :
       \E bad \in 0..n :
         us = usda_start(n, bad, retries, chunk_rows, other_rows)

UsdaNext ==
  \/ UsdaReadRow
  \/ UsdaEndOfFile
  \/ UsdaFlush
  \/ UsdaHandler

UsdaSpec == InitUsda /\ [][UsdaNext]_vars

\* C39: in every state of a table load that began with an empty table,
\* overall_loaded_rows is the rows of the other tables plus the rows
\* committed to this table; during an attempt the table holds the rows of
\* the file read and flushed so far, each once, in file order, so that a
\* retry after committed chunks starts from an empty table with the
\* counters reset; after success the table is the file; a load fails only
\* with its error, when no retry is left or the truncation failed.
UsdaRetryReloads ==
  us.pc # "idle" =>
    /\ us.overall_loaded_rows = us.other_rows + Len(us.table)
    /\ us.pc \in {"load", "flush", "done"} =>
         /\ us.table_committed_rows = Len(us.table)
         /\ us.table \o us.buf = SubSeq(us.csv, 1, us.pos)
         /\ us.rows_in_chunk = Len(us.buf)
         /\ us.attempt <= us.retries \/ us.attempt = 0
    /\ us.pc = "done" => us.table = us.csv
    /\ us.pc = "failed" =>
         /\ us.err # ""
         /\ us.attempt > us.retries \/ us.err = "cleanup failed"

\* a load that succeeded at its second attempt, after a truncation
UsdaRetryReloadsWitness ==
  /\ us.pc = "done" /\ us.attempt = 1 /\ us.truncates = 1
  /\ Len(us.csv) = 3 /\ us.table = us.csv
  /\ us.overall_loaded_rows = us.other_rows + 3

=============================================================================
